---- MODULE Spec2Model ----
(***************************************************************************)
(* State-machine model of eugenefil/dsa.                                   *)
(*                                                                         *)
(* Part 1: arc-rs/src/arc_weak.rs, the strong/weak reference-counted       *)
(* pointer.  One allocation record (ArcData) is shared by the handles of   *)
(* a fixed set of threads.  Every atomic memory operation of the source is *)
(* one step; the thread-local code between two atomic operations is part   *)
(* of the step of the operation that precedes it.                          *)
(*                                                                         *)
(* Part 2: the happens-before order of the accesses to the payload, as the *)
(* memory orderings of the atomic operations on the strong counter give    *)
(* it.  Part 3: arc-rs/src/arc_only.rs.  Part 4: the futex mutexes of      *)
(* mutex-rs.  Part 5: condvar-rs/src/condvar_simple.rs.  Part 6: the       *)
(* channels of channel-rs.  Part 7: the spin locks of spinlock-rs.         *)
(* Part 8: Vec::drain of vec-rs.  Part 9: gcd of gcd-stein-rs.  Part 10:   *)
(* the binary search tree of bst-rs.  Every part has a specification of    *)
(* its own; the variables of the other parts keep their initial values in  *)
(* it.                                                                     *)
(***************************************************************************)
EXTENDS Integers, Naturals, FiniteSets, Sequences, TLC

\* ------------------------------------------------------------------ bounds
\* Width of the counters in bits (usize scaled down so that the overflow
\* guard and the sentinel are within reach).
WordBits == 3
\* Number of threads that own handles.
NThreads == 2
\* Cap on the live handles (strong plus weak): a clone, downgrade or upgrade
\* begins only while no more than this many handles are alive, so that the
\* overflow guard (more than MAX / 2 handles of one kind) is still reached.
MaxHandles == 4
\* Increments each thread of the mutex test makes (100_000 in the source).
Increments == 2
\* Turns of the spin loop of mutex_spin (count = 100 in the source).
SpinLimit == 2
\* Width of the condition variable's counter in bits (AtomicU32 scaled down
\* so that it wraps within reach).
CounterBits == 2
\* Calls of notify_one each producer makes.
Notifications == 4
\* Spurious returns of std's Condvar::wait in a run of channel_mutex.
MaxSpurious == 1
\* Elements pushed to the vector before it is drained (4 in tests::drain).
MaxVecLen == 4
\* Width of gcd's arguments in bits (u64 scaled down).
GcdBits == 4
\* The values inserted into the tree are 1..MaxKey.
MaxKey == 3
\* Calls of Tree::insert before the tree is iterated.
MaxInserts == 4

Threads == 1..NThreads
\* Payload values: the two values of tests::it_works.
Values == {7, 9}

\* ------------------------------------------------------- program constants
\* usize::MAX, the sentinel stored in weak_count by get_mut.
MAX == 2^WordBits - 1
\* usize::MAX / 2, the overflow guard of the four incrementing operations.
HalfMax == MAX \div 2
Word == 0..MAX
WrapAdd(n) == (n + 1) % (MAX + 1)
WrapSub(n) == (n + MAX) % (MAX + 1)

\* channel_oneshot_arc.rs: the values of Channel.state.
EMPTY == 0
DATA_READY == 1
RX_READY == 2

\* Result of the last call of a thread: nothing, the Option of get_mut and
\* upgrade, or the value a dereference read.
NoRet == <<>>
RetSome == <<"Some">>
RetNone == <<"None">>
RetVal(v) == <<"val", v>>

VARIABLES
    alloc,          \* "none" | "allocated" | "released": the Box of ArcData
    data,           \* ArcData.data, the payload
    strong_count,   \* ArcData.strong_count
    weak_count,     \* ArcData.weak_count
    DROP_COUNT,     \* how often the payload destructor has run
    free_count,     \* how often the allocation record has been released
    arcs,           \* arcs[t]: strong handles owned by thread t
    weaks,          \* weaks[t]: weak handles owned by thread t
    pc,             \* pc[t]: where thread t is inside an operation
    seen,           \* seen[t]: the local weak_count / strong_count of a loop
    is_single,      \* is_single[t]: the local of get_mut
    ret,            \* ret[t]: what the last call of t returned
    uaf,            \* a freed record or a destroyed payload was accessed
    aborted         \* std::process::abort() was called

vars == <<alloc, data, strong_count, weak_count, DROP_COUNT, free_count,
          arcs, weaks, pc, seen, is_single, ret, uaf, aborted>>

\* ---------------------------------------------- state of the other parts
VARIABLES
    known,          \* known[t]: the threads all of whose accesses to the
                    \* payload so far happen-before what t does next
    rel             \* the threads all of whose accesses so far happen-before
                    \* a release operation heading a release sequence that
                    \* the current value of the strong counter belongs to

hbVars == <<known, rel>>

VARIABLES
    count,          \* arc_only: ArcData.count
    only_alloc,     \* arc_only: "none" | "allocated" | "released"
    only_DROP_COUNT,\* arc_only: how often the Box of ArcData was dropped
    only_arcs,      \* arc_only: only_arcs[t], handles owned by thread t
    only_pc,        \* arc_only: where thread t is inside an operation
    only_uaf        \* arc_only: a dropped Box was accessed

onlyVars == <<count, only_alloc, only_DROP_COUNT, only_arcs, only_pc, only_uaf>>

VARIABLES
    variant,        \* "simple" | "spin": which mutex the threads share
    state,          \* Mutex.state
    guard,          \* guard[t]: thread t owns the MutexGuard
    mpc,            \* mpc[t]: where thread t is in its program
    cont,           \* cont[t]: where t goes on when lock or drop returns
    value,          \* the u32 the mutex of the test protects
    tmp,            \* tmp[t]: the value t read (of the data, of the counter)
    spin,           \* spin[t]: the local count of mutex_spin's lock
    todo            \* todo[t]: rounds thread t has yet to make

mutexVars == <<variant, state, guard, mpc, cont, value, tmp, spin, todo>>

VARIABLES
    counter,        \* Condvar.counter
    resource,       \* Resource.count of the test, protected by the mutex
    since           \* since[t]: fetch_adds on counter since t loaded it in
                    \* wait, while t has not yet called futex::wait

condvarVars == <<counter, resource, since>>

VARIABLES
    os_test,        \* which test of channel_oneshot_arc runs
    os_sent,        \* the value the test passes to send
    os_state,       \* Channel.state
    os_data,        \* Channel.data: <<>> while uninitialised, else <<v>>
    os_rx_thread,   \* Channel.rx_thread is initialised
    os_token,       \* the park token of the receiving thread
    os_pc,          \* os_pc.tx, os_pc.rx: where sender and receiver are
    os_ret,         \* what receive returned
    os_handles,     \* strong count of the Arc<Channel>
    os_chan,        \* "alive" | "dropped" | "panicked": the Channel
    os_ub           \* an uninitialised or dropped field has been read

oneshotVars == <<os_test, os_sent, os_state, os_data, os_rx_thread, os_token,
                 os_pc, os_ret, os_handles, os_chan, os_ub>>

VARIABLES
    cm_queue,       \* Channel.queue: the VecDeque the Mutex protects
    cm_lock,        \* the thread that owns the MutexGuard, 0 when free
    cm_waiting,     \* the threads blocked in Condvar::wait on ready
    cm_pc,          \* cm_pc[t]: where thread t is
    cm_send,        \* cm_send[t]: the values t has yet to send
    cm_recv,        \* cm_recv[t]: the receive calls t has yet to make
    cm_got,         \* cm_got[t]: what t's receive calls returned, in order
    cm_entered,     \* every value pushed, in the order of the pushes
    cm_popped,      \* every value popped, in the order of the pops
    cm_spurious     \* spurious returns of Condvar::wait so far

cmVars == <<cm_queue, cm_lock, cm_waiting, cm_pc, cm_send, cm_recv, cm_got,
            cm_entered, cm_popped, cm_spurious>>

VARIABLES
    sl_version,     \* "v1" | "v2": which SpinLock the threads share
    sl_locked,      \* SpinLock.locked
    sl_cell,        \* SpinLock.cell, the u32 of the test
    sl_pc,          \* sl_pc[t]: where thread t is
    sl_tmp,         \* sl_tmp[t]: the value t read for its increment
    sl_todo,        \* sl_todo[t]: increments t has yet to make
    sl_main         \* the final assert_eq! of the test: "no", "ok", "failed"

slVars == <<sl_version, sl_locked, sl_cell, sl_pc, sl_tmp, sl_todo, sl_main>>

VARIABLES
    dr_buf,         \* the cells at Vec.ptr, cap of them; 0 is a cell never
                    \* written
    dr_len,         \* Vec.len
    dr_cap,         \* Vec.cap
    dr_pc,          \* "build" | "draining" | "dropped" | "forgotten" |
                    \* "panicked"
    dr_tail_start,  \* Drain.tail_start
    dr_tail_len,    \* Drain.tail_len
    dr_beg,         \* Drain.beg, as an index into the cells
    dr_end,         \* Drain.end, as an index into the cells
    dr_front,       \* what next has returned, in order
    dr_back,        \* what next_back has returned, in order
    dr_orig,        \* the elements of the vector when drain was called
    dr_lo,          \* start, as drain resolved the range
    dr_hi           \* end, as drain resolved the range

drainVars == <<dr_buf, dr_len, dr_cap, dr_pc, dr_tail_start, dr_tail_len,
               dr_beg, dr_end, dr_front, dr_back, dr_orig, dr_lo, dr_hi>>

VARIABLES
    g_a,            \* the arguments of the call of gcd
    g_b,
    g_u,            \* the locals u, v and twos_gcd
    g_v,
    g_twos,
    g_pc,           \* "start" | "loop" | "done"
    g_ret,          \* what gcd returned
    g_underflow,    \* v -= u was computed with v < u
    g_overshift     \* u << twos_gcd lost bits

gcdVars == <<g_a, g_b, g_u, g_v, g_twos, g_pc, g_ret, g_underflow,
             g_overshift>>

VARIABLES
    bt_root,        \* Tree.root: a node, 0 for None
    bt_elem,        \* bt_elem[n]: Node.elem of node n
    bt_left,        \* bt_left[n]: Node.left of node n, 0 for None
    bt_right,       \* bt_right[n]: Node.right of node n, 0 for None
    bt_pc,          \* "insert" | "iter" | "done"
    bt_iters,       \* IterMut.0: the deque of NodeIterMut, front first
    bt_visited,     \* what IterMut::next has returned, in order
    bt_inserted,    \* the values passed to insert
    bt_calls        \* the calls of insert so far

bstVars == <<bt_root, bt_elem, bt_left, bt_right, bt_pc, bt_iters,
             bt_visited, bt_inserted, bt_calls>>

\* The variables of Parts 6 and later.
tailVars == <<oneshotVars, cmVars, slVars, drainVars, gcdVars, bstVars>>

HbInit ==
    /\ known = [t \in Threads |-> Threads]
    /\ rel = {}

OnlyInit ==
    /\ count = 0
    /\ only_alloc = "none"
    /\ only_DROP_COUNT = 0
    /\ only_arcs = [t \in Threads |-> 0]
    /\ only_pc = [t \in Threads |-> "idle"]
    /\ only_uaf = FALSE

\* Mutex::new(0): unlocked, no guard; every thread at the start of its
\* program with n rounds to make.
MutexInit(which, n) ==
    /\ variant = which
    /\ state = 0
    /\ guard = [t \in Threads |-> FALSE]
    /\ mpc = [t \in Threads |-> "start"]
    /\ cont = [t \in Threads |-> "start"]
    /\ value = 0
    /\ tmp = [t \in Threads |-> 0]
    /\ spin = [t \in Threads |-> 0]
    /\ todo = [t \in Threads |-> n]

\* Condvar::new() and Resource { count: 0 }.
CondvarInit ==
    /\ counter = 0
    /\ resource = 0
    /\ since = [t \in Threads |-> 0]

\* channel(): both fields uninitialised, state EMPTY, a Sender and a
\* Receiver that share the Channel; the test is about to send v.
OneshotInit(test, v) ==
    /\ os_test = test
    /\ os_sent = v
    /\ os_state = EMPTY
    /\ os_data = <<>>
    /\ os_rx_thread = FALSE
    /\ os_token = FALSE
    /\ os_pc = [tx |-> IF test = "receive_then_send" THEN "spin"
                       ELSE "send_write",
                rx |-> IF test = "drop_data" THEN "rx_drop"
                       ELSE "recv_write"]
    /\ os_ret = NoRet
    /\ os_handles = 2
    /\ os_chan = "alive"
    /\ os_ub = FALSE

\* channel_mutex.rs, tests::it_works: the sending threads with what they
\* send, and the receiving threads.
CmSenders == {1, 2}
CmReceivers == {3, 4}
CmThreads == CmSenders \cup CmReceivers
CmProgram == [t \in CmThreads |->
                 IF t = 1 THEN <<"foo">>
                 ELSE IF t = 2 THEN <<"bar", "baz">> ELSE <<>>]

\* Channel::new(), and the threads of the scope about to run; receiver t
\* makes calls[t] calls of receive.
CmInit(calls) ==
    /\ cm_queue = <<>>
    /\ cm_lock = 0
    /\ cm_waiting = {}
    /\ cm_pc = [t \in CmThreads |-> "idle"]
    /\ cm_send = CmProgram
    /\ cm_recv = [t \in CmThreads |-> IF t \in CmReceivers THEN calls[t]
                                      ELSE 0]
    /\ cm_got = [t \in CmThreads |-> <<>>]
    /\ cm_entered = <<>>
    /\ cm_popped = <<>>
    /\ cm_spurious = 0

\* SpinLock::new(0u32), and the threads of the scope with n increments
\* each to make.
SlInit(version, n) ==
    /\ sl_version = version
    /\ sl_locked = FALSE
    /\ sl_cell = 0
    /\ sl_pc = [t \in Threads |-> IF n = 0 THEN "done" ELSE "lock"]
    /\ sl_tmp = [t \in Threads |-> 0]
    /\ sl_todo = [t \in Threads |-> n]
    /\ sl_main = "no"

\* Vec::new(): no cells, len and cap 0; no Drain yet.
DrainInit ==
    /\ dr_buf = <<>>
    /\ dr_len = 0
    /\ dr_cap = 0
    /\ dr_pc = "build"
    /\ dr_tail_start = 0
    /\ dr_tail_len = 0
    /\ dr_beg = 0
    /\ dr_end = 0
    /\ dr_front = <<>>
    /\ dr_back = <<>>
    /\ dr_orig = <<>>
    /\ dr_lo = 0
    /\ dr_hi = 0

\* The call gcd(a, b) at its entry.
GcdInit(a, b) ==
    /\ g_a = a
    /\ g_b = b
    /\ g_u = a
    /\ g_v = b
    /\ g_twos = 0
    /\ g_pc = "start"
    /\ g_ret = 0
    /\ g_underflow = FALSE
    /\ g_overshift = FALSE

\* Tree::new(): no node; no iterator yet.
BstInit ==
    /\ bt_root = 0
    /\ bt_elem = <<>>
    /\ bt_left = <<>>
    /\ bt_right = <<>>
    /\ bt_pc = "insert"
    /\ bt_iters = <<>>
    /\ bt_visited = <<>>
    /\ bt_inserted = {}
    /\ bt_calls = 0

\* Parts 6 and later before they run.
TailInit ==
    /\ OneshotInit("it_works", 7)
    /\ CmInit([t \in CmReceivers |-> 0])
    /\ SlInit("v1", 0)
    /\ DrainInit
    /\ GcdInit(0, 0)
    /\ BstInit

\* The other parts before they run.
OthersInit ==
    /\ HbInit
    /\ OnlyInit
    /\ MutexInit("simple", 0)
    /\ CondvarInit
    /\ TailInit

\* A step of arc_weak leaves the other parts alone.
OnlyArcWeak ==
    UNCHANGED <<hbVars, onlyVars, mutexVars, condvarVars, tailVars>>

\* ----------------------------------------------------------------- helpers
RECURSIVE SumTo(_, _)
SumTo(f, n) == IF n = 0 THEN 0 ELSE f[n] + SumTo(f, n - 1)

\* Live handles: the handles some thread owns and has not begun to drop.
NumStrong == SumTo(arcs, NThreads)
NumWeak == SumTo(weaks, NThreads)

\* A thread can take a step of its own only while the process runs.
At(t, label) == ~aborted /\ pc[t] = label
\* Room for one more handle.
RoomStrong == NumStrong + NumWeak <= MaxHandles
RoomWeak == NumStrong + NumWeak <= MaxHandles

\* What a load of a counter returns.  A load from a released record is a
\* use after free and may return any word.
LoadStrong == IF alloc = "released" THEN Word ELSE {strong_count}
LoadWeak == IF alloc = "released" THEN Word ELSE {weak_count}
\* What a read of the payload returns; a destroyed payload may read as
\* anything.
LoadData == IF alloc = "allocated" /\ DROP_COUNT = 0 THEN {data} ELSE Values

\* Every access to the counters goes through ptr.as_ref().
TouchRecord == uaf' = (uaf \/ alloc # "allocated")
TouchData == uaf' = (uaf \/ alloc # "allocated" \/ DROP_COUNT > 0)

Goto(t, label) == pc' = [pc EXCEPT ![t] = label]
Return(t, r) == /\ pc' = [pc EXCEPT ![t] = "idle"]
                /\ ret' = [ret EXCEPT ![t] = r]

\* -------------------------------------------------------------------- Init
ArcWeakInit ==
    /\ alloc = "none"
    /\ data = 7
    /\ strong_count = 0
    /\ weak_count = 0
    /\ DROP_COUNT = 0
    /\ free_count = 0
    /\ arcs = [t \in Threads |-> 0]
    /\ weaks = [t \in Threads |-> 0]
    /\ pc = [t \in Threads |-> "idle"]
    /\ seen = [t \in Threads |-> 0]
    /\ is_single = [t \in Threads |-> FALSE]
    /\ ret = [t \in Threads |-> NoRet]
    /\ uaf = FALSE
    /\ aborted = FALSE

Init == ArcWeakInit /\ OthersInit

\* Mutant of ArcNew: weak_count counts the Weaks only, without the unit
\* that stands for all Arcs.
ArcNew_NoUnit(t, v) ==
    /\ At(t, "idle")
    /\ alloc = "none"
    /\ alloc' = "allocated"
    /\ data' = v
    /\ strong_count' = 1
    /\ weak_count' = 0
    /\ arcs' = [arcs EXCEPT ![t] = 1]
    /\ ret' = [ret EXCEPT ![t] = NoRet]
    /\ UNCHANGED <<DROP_COUNT, free_count, weaks, pc, seen, is_single, uaf,
                   aborted>>

\* ---------------------------------------------------------------- Arc::new
ArcNew(t, v) ==
    /\ At(t, "idle")
    /\ alloc = "none"
    /\ alloc' = "allocated"
    /\ data' = v
    /\ strong_count' = 1
    /\ weak_count' = 1
    /\ arcs' = [arcs EXCEPT ![t] = 1]
    /\ ret' = [ret EXCEPT ![t] = NoRet]
    /\ UNCHANGED <<DROP_COUNT, free_count, weaks, pc, seen, is_single, uaf,
                   aborted>>

\* -------------------------------------------------- moving a handle (Send)
SendArc(t, u) ==
    /\ At(t, "idle")
    /\ t # u
    /\ arcs[t] > 0
    /\ arcs' = [arcs EXCEPT ![t] = @ - 1, ![u] = @ + 1]
    /\ UNCHANGED <<alloc, data, strong_count, weak_count, DROP_COUNT,
                   free_count, weaks, pc, seen, is_single, ret, uaf, aborted>>

SendWeak(t, u) ==
    /\ At(t, "idle")
    /\ t # u
    /\ weaks[t] > 0
    /\ weaks' = [weaks EXCEPT ![t] = @ - 1, ![u] = @ + 1]
    /\ UNCHANGED <<alloc, data, strong_count, weak_count, DROP_COUNT,
                   free_count, arcs, pc, seen, is_single, ret, uaf, aborted>>

\* ------------------------------------------------------------ Arc::deref
Deref(t) ==
    /\ At(t, "idle")
    /\ arcs[t] > 0
    /\ \E v \in LoadData : ret' = [ret EXCEPT ![t] = RetVal(v)]
    /\ TouchData
    /\ UNCHANGED <<alloc, data, strong_count, weak_count, DROP_COUNT,
                   free_count, arcs, weaks, pc, seen, is_single, aborted>>

\* Mutant of ArcClone: the pointer is copied without the fetch_add.
ArcClone_PtrCopy(t) ==
    /\ At(t, "idle")
    /\ arcs[t] > 0
    /\ RoomStrong
    /\ \E cur \in LoadStrong :
        /\ strong_count' = cur
        /\ IF cur > HalfMax
           THEN Goto(t, "clone_abort") /\ UNCHANGED arcs
           ELSE arcs' = [arcs EXCEPT ![t] = @ + 1] /\ UNCHANGED pc
    /\ ret' = [ret EXCEPT ![t] = NoRet]
    /\ TouchRecord
    /\ UNCHANGED <<alloc, data, weak_count, DROP_COUNT, free_count, weaks,
                   seen, is_single, aborted>>

\* ------------------------------------------------------------ Arc::clone
\* fetch_add(1); the guard reads the value before the increment.
ArcClone(t) ==
    /\ At(t, "idle")
    /\ arcs[t] > 0
    /\ RoomStrong
    /\ \E cur \in LoadStrong :
        /\ strong_count' = WrapAdd(cur)
        /\ IF cur > HalfMax
           THEN Goto(t, "clone_abort") /\ UNCHANGED arcs
           ELSE arcs' = [arcs EXCEPT ![t] = @ + 1] /\ UNCHANGED pc
    /\ ret' = [ret EXCEPT ![t] = NoRet]
    /\ TouchRecord
    /\ UNCHANGED <<alloc, data, weak_count, DROP_COUNT, free_count, weaks,
                   seen, is_single, aborted>>

\* std::process::abort() after the fetch_add of Arc::clone or Weak::clone
Abort(t) ==
    /\ ~aborted
    /\ pc[t] \in {"clone_abort", "weak_clone_abort"}
    /\ aborted' = TRUE
    /\ UNCHANGED <<alloc, data, strong_count, weak_count, DROP_COUNT,
                   free_count, arcs, weaks, pc, seen, is_single, ret, uaf>>

\* -------------------------------------------------------- Arc::downgrade
\* let mut weak_count = weak_count.load(Relaxed)
DowngradeLoad(t) ==
    /\ At(t, "idle")
    /\ arcs[t] > 0
    /\ RoomWeak
    /\ \E cur \in LoadWeak : seen' = [seen EXCEPT ![t] = cur]
    /\ Goto(t, "downgrade")
    /\ ret' = [ret EXCEPT ![t] = NoRet]
    /\ TouchRecord
    /\ UNCHANGED <<alloc, data, strong_count, weak_count, DROP_COUNT,
                   free_count, arcs, weaks, is_single, aborted>>

\* Mutant of DowngradeSpin: the loop spins without loading weak_count again.
DowngradeSpin_NoReload(t) ==
    /\ At(t, "downgrade")
    /\ seen[t] = MAX
    /\ TouchRecord
    /\ UNCHANGED <<alloc, data, strong_count, weak_count, DROP_COUNT,
                   free_count, arcs, weaks, pc, seen, is_single, ret, aborted>>

\* while weak_count == usize::MAX { spin_loop(); weak_count = load }
DowngradeSpin(t) ==
    /\ At(t, "downgrade")
    /\ seen[t] = MAX
    /\ \E cur \in LoadWeak : seen' = [seen EXCEPT ![t] = cur]
    /\ TouchRecord
    /\ UNCHANGED <<alloc, data, strong_count, weak_count, DROP_COUNT,
                   free_count, arcs, weaks, pc, is_single, ret, aborted>>

\* Mutant of DowngradeAbort: the overflow guard is tested before the spin
\* on the sentinel, so a locked weak_count aborts the process.
DowngradeAbort_AtSentinel(t) ==
    /\ At(t, "downgrade")
    /\ seen[t] > HalfMax
    /\ aborted' = TRUE
    /\ UNCHANGED <<alloc, data, strong_count, weak_count, DROP_COUNT,
                   free_count, arcs, weaks, pc, seen, is_single, ret, uaf>>

\* if weak_count > usize::MAX / 2 { abort() }
DowngradeAbort(t) ==
    /\ At(t, "downgrade")
    /\ seen[t] # MAX
    /\ seen[t] > HalfMax
    /\ aborted' = TRUE
    /\ UNCHANGED <<alloc, data, strong_count, weak_count, DROP_COUNT,
                   free_count, arcs, weaks, pc, seen, is_single, ret, uaf>>

\* Mutant of DowngradeCas: the incremented value is stored without comparing
\* weak_count with the value that was read.
DowngradeCas_Blind(t) ==
    /\ At(t, "downgrade")
    /\ seen[t] # MAX
    /\ seen[t] <= HalfMax
    /\ TouchRecord
    /\ weak_count' = seen[t] + 1
    /\ weaks' = [weaks EXCEPT ![t] = @ + 1]
    /\ seen' = [seen EXCEPT ![t] = 0]
    /\ Goto(t, "idle")
    /\ UNCHANGED <<alloc, data, strong_count, DROP_COUNT, free_count, arcs,
                   is_single, ret, aborted>>

\* compare_exchange_weak(weak_count, weak_count + 1): it may fail although
\* the value matches; on failure the loop continues with the value read.
DowngradeCas(t) ==
    /\ At(t, "downgrade")
    /\ seen[t] # MAX
    /\ seen[t] <= HalfMax
    /\ TouchRecord
    /\ \E cur \in LoadWeak :
        \/ /\ cur = seen[t]
           /\ weak_count' = seen[t] + 1
           /\ weaks' = [weaks EXCEPT ![t] = @ + 1]
           /\ seen' = [seen EXCEPT ![t] = 0]
           /\ Goto(t, "idle")
        \/ /\ seen' = [seen EXCEPT ![t] = cur]
           /\ UNCHANGED <<weak_count, weaks, pc>>
    /\ UNCHANGED <<alloc, data, strong_count, DROP_COUNT, free_count, arcs,
                   is_single, ret, aborted>>

\* Mutant of GetMutCas: weak_count is compared with 1 but the sentinel is
\* not stored, so downgrades are not locked out.
GetMutCas_NoLock(t) ==
    /\ At(t, "idle")
    /\ arcs[t] > 0
    /\ TouchRecord
    /\ \E cur \in LoadWeak :
        IF cur = 1
        THEN /\ Goto(t, "get_mut_load")
             /\ ret' = [ret EXCEPT ![t] = NoRet]
             /\ UNCHANGED weak_count
        ELSE /\ Return(t, RetNone)
             /\ UNCHANGED weak_count
    /\ UNCHANGED <<alloc, data, strong_count, DROP_COUNT, free_count, arcs,
                   weaks, seen, is_single, aborted>>

\* Mutant of GetMutCas: swap(usize::MAX) instead of compare_exchange, so the
\* failing path has overwritten weak_count.
GetMutCas_Swap(t) ==
    /\ At(t, "idle")
    /\ arcs[t] > 0
    /\ TouchRecord
    /\ weak_count' = MAX
    /\ \E cur \in LoadWeak :
        IF cur = 1
        THEN /\ Goto(t, "get_mut_load")
             /\ ret' = [ret EXCEPT ![t] = NoRet]
        ELSE Return(t, RetNone)
    /\ UNCHANGED <<alloc, data, strong_count, DROP_COUNT, free_count, arcs,
                   weaks, seen, is_single, aborted>>

\* ------------------------------------------------------------ Arc::get_mut
\* weak_count.compare_exchange(1, usize::MAX); Err => return None
GetMutCas(t) ==
    /\ At(t, "idle")
    /\ arcs[t] > 0
    /\ TouchRecord
    /\ \E cur \in LoadWeak :
        IF cur = 1
        THEN /\ weak_count' = MAX
             /\ Goto(t, "get_mut_load")
             /\ ret' = [ret EXCEPT ![t] = NoRet]
        ELSE /\ Return(t, RetNone)
             /\ UNCHANGED weak_count
    /\ UNCHANGED <<alloc, data, strong_count, DROP_COUNT, free_count, arcs,
                   weaks, seen, is_single, aborted>>

\* Mutant of GetMutLoad: any nonzero strong_count counts as single.
GetMutLoad_Nonzero(t) ==
    /\ At(t, "get_mut_load")
    /\ \E cur \in LoadStrong : is_single' = [is_single EXCEPT ![t] = (cur # 0)]
    /\ Goto(t, "get_mut_store")
    /\ TouchRecord
    /\ UNCHANGED <<alloc, data, strong_count, weak_count, DROP_COUNT,
                   free_count, arcs, weaks, seen, ret, aborted>>

\* let is_single = strong_count.load(Relaxed) == 1
GetMutLoad(t) ==
    /\ At(t, "get_mut_load")
    /\ \E cur \in LoadStrong : is_single' = [is_single EXCEPT ![t] = (cur = 1)]
    /\ Goto(t, "get_mut_store")
    /\ TouchRecord
    /\ UNCHANGED <<alloc, data, strong_count, weak_count, DROP_COUNT,
                   free_count, arcs, weaks, seen, ret, aborted>>

\* Mutant of GetMutStore: the failing path returns before the store.
GetMutStore_EarlyReturn(t) ==
    /\ At(t, "get_mut_store")
    /\ IF is_single[t]
       THEN /\ weak_count' = 1
            /\ pc' = [pc EXCEPT ![t] = "mut_view"]
            /\ ret' = [ret EXCEPT ![t] = RetSome]
       ELSE /\ Return(t, RetNone)
            /\ UNCHANGED weak_count
    /\ is_single' = [is_single EXCEPT ![t] = FALSE]
    /\ TouchRecord
    /\ UNCHANGED <<alloc, data, strong_count, DROP_COUNT, free_count, arcs,
                   weaks, seen, aborted>>

\* Mutant of GetMutStore: a get_mut that waits to become the single owner,
\* loading strong_count again instead of returning None.
GetMutStore_Reload(t) ==
    /\ At(t, "get_mut_store")
    /\ weak_count' = 1
    /\ IF is_single[t]
       THEN /\ pc' = [pc EXCEPT ![t] = "mut_view"]
            /\ ret' = [ret EXCEPT ![t] = RetSome]
       ELSE Goto(t, "get_mut_load") /\ UNCHANGED ret
    /\ is_single' = [is_single EXCEPT ![t] = FALSE]
    /\ TouchRecord
    /\ UNCHANGED <<alloc, data, strong_count, DROP_COUNT, free_count, arcs,
                   weaks, seen, aborted>>

\* weak_count.store(1, Release); if !is_single { return None }; Some(&mut data)
GetMutStore(t) ==
    /\ At(t, "get_mut_store")
    /\ weak_count' = 1
    /\ IF is_single[t]
       THEN /\ pc' = [pc EXCEPT ![t] = "mut_view"]
            /\ ret' = [ret EXCEPT ![t] = RetSome]
       ELSE Return(t, RetNone)
    /\ is_single' = [is_single EXCEPT ![t] = FALSE]
    /\ TouchRecord
    /\ UNCHANGED <<alloc, data, strong_count, DROP_COUNT, free_count, arcs,
                   weaks, seen, aborted>>

\* A write through the &mut T that get_mut returned.
MutWrite(t, v) ==
    /\ At(t, "mut_view")
    /\ data' = v
    /\ TouchData
    /\ UNCHANGED <<alloc, strong_count, weak_count, DROP_COUNT, free_count,
                   arcs, weaks, pc, seen, is_single, ret, aborted>>

\* The borrow of the &mut T ends.
MutRelease(t) ==
    /\ At(t, "mut_view")
    /\ Goto(t, "idle")
    /\ UNCHANGED <<alloc, data, strong_count, weak_count, DROP_COUNT,
                   free_count, arcs, weaks, seen, is_single, ret, uaf, aborted>>

\* Mutant of ArcDrop: the last drop never runs ManuallyDrop::drop.
ArcDrop_SkipsDestroy(t) ==
    /\ At(t, "idle")
    /\ arcs[t] > 0
    /\ arcs' = [arcs EXCEPT ![t] = @ - 1]
    /\ \E cur \in LoadStrong :
        /\ strong_count' = WrapSub(cur)
        /\ Goto(t, IF cur = 1 THEN "drop_weak" ELSE "idle")
    /\ ret' = [ret EXCEPT ![t] = NoRet]
    /\ TouchRecord
    /\ UNCHANGED <<alloc, data, weak_count, DROP_COUNT, free_count, weaks,
                   seen, is_single, aborted>>

\* Mutant of ArcDrop: the test for the last handle is off by one.
ArcDrop_LastAtTwo(t) ==
    /\ At(t, "idle")
    /\ arcs[t] > 0
    /\ arcs' = [arcs EXCEPT ![t] = @ - 1]
    /\ \E cur \in LoadStrong :
        /\ strong_count' = WrapSub(cur)
        /\ Goto(t, IF cur <= 2 THEN "drop_data" ELSE "idle")
    /\ ret' = [ret EXCEPT ![t] = NoRet]
    /\ TouchRecord
    /\ UNCHANGED <<alloc, data, weak_count, DROP_COUNT, free_count, weaks,
                   seen, is_single, aborted>>

\* -------------------------------------------------------------- Arc::drop
\* strong_count.fetch_sub(1, Release) == 1 ?
ArcDrop(t) ==
    /\ At(t, "idle")
    /\ arcs[t] > 0
    /\ arcs' = [arcs EXCEPT ![t] = @ - 1]
    /\ \E cur \in LoadStrong :
        /\ strong_count' = WrapSub(cur)
        /\ Goto(t, IF cur = 1 THEN "drop_data" ELSE "idle")
    /\ ret' = [ret EXCEPT ![t] = NoRet]
    /\ TouchRecord
    /\ UNCHANGED <<alloc, data, weak_count, DROP_COUNT, free_count, weaks,
                   seen, is_single, aborted>>

\* ManuallyDrop::drop(&mut data)
ArcDropData(t) ==
    /\ At(t, "drop_data")
    /\ DROP_COUNT' = DROP_COUNT + 1
    /\ TouchData
    /\ Goto(t, "drop_weak")
    /\ UNCHANGED <<alloc, data, strong_count, weak_count, free_count, arcs,
                   weaks, seen, is_single, ret, aborted>>

\* Mutant of ArcDropWeak: the unit of the Arcs is never given up.
ArcDropWeak_Forgotten(t) ==
    /\ At(t, "drop_weak")
    /\ Goto(t, "idle")
    /\ UNCHANGED <<alloc, data, strong_count, weak_count, DROP_COUNT,
                   free_count, arcs, weaks, seen, is_single, ret, uaf, aborted>>

\* Mutant of ArcDropWeak: the last Arc::drop gives up two units of
\* weak_count.
ArcDropWeak_TwoUnits(t) ==
    /\ At(t, "drop_weak")
    /\ \E cur \in LoadWeak :
        /\ weak_count' = WrapSub(WrapSub(cur))
        /\ Goto(t, IF cur <= 2 THEN "free" ELSE "idle")
    /\ TouchRecord
    /\ UNCHANGED <<alloc, data, strong_count, DROP_COUNT, free_count, arcs,
                   weaks, seen, is_single, ret, aborted>>

\* Mutant of ArcDropWeak: the last Arc::drop releases the record itself, as
\* the strong-only variant does, instead of giving up its weak unit.
ArcDropWeak_Free(t) ==
    /\ At(t, "drop_weak")
    /\ Goto(t, "free")
    /\ TouchRecord
    /\ UNCHANGED <<alloc, data, strong_count, weak_count, DROP_COUNT,
                   free_count, arcs, weaks, seen, is_single, ret, aborted>>

\* drop(Weak { ptr }): the fetch_sub of Weak::drop for the unit of the Arcs
ArcDropWeak(t) ==
    /\ At(t, "drop_weak")
    /\ \E cur \in LoadWeak :
        /\ weak_count' = WrapSub(cur)
        /\ Goto(t, IF cur = 1 THEN "free" ELSE "idle")
    /\ TouchRecord
    /\ UNCHANGED <<alloc, data, strong_count, DROP_COUNT, free_count, arcs,
                   weaks, seen, is_single, ret, aborted>>

\* ----------------------------------------------------------- Weak::upgrade
\* let mut strong_count = strong_count.load(Relaxed)
UpgradeLoad(t) ==
    /\ At(t, "idle")
    /\ weaks[t] > 0
    /\ RoomStrong
    /\ \E cur \in LoadStrong : seen' = [seen EXCEPT ![t] = cur]
    /\ Goto(t, "upgrade")
    /\ ret' = [ret EXCEPT ![t] = NoRet]
    /\ TouchRecord
    /\ UNCHANGED <<alloc, data, strong_count, weak_count, DROP_COUNT,
                   free_count, arcs, weaks, is_single, aborted>>

\* if strong_count == 0 { return None }
UpgradeNone(t) ==
    /\ At(t, "upgrade")
    /\ seen[t] = 0
    /\ Return(t, RetNone)
    /\ UNCHANGED <<alloc, data, strong_count, weak_count, DROP_COUNT,
                   free_count, arcs, weaks, seen, is_single, uaf, aborted>>

\* if strong_count > usize::MAX / 2 { abort() }
UpgradeAbort(t) ==
    /\ At(t, "upgrade")
    /\ seen[t] > HalfMax
    /\ aborted' = TRUE
    /\ UNCHANGED <<alloc, data, strong_count, weak_count, DROP_COUNT,
                   free_count, arcs, weaks, pc, seen, is_single, ret, uaf>>

\* Mutant of UpgradeCas: an unconditional fetch_add in place of the
\* compare-exchange, so a value read earlier decides.
UpgradeCas_FetchAdd(t) ==
    /\ At(t, "upgrade")
    /\ seen[t] # 0
    /\ seen[t] <= HalfMax
    /\ TouchRecord
    /\ \E cur \in LoadStrong :
        /\ strong_count' = WrapAdd(cur)
        /\ arcs' = [arcs EXCEPT ![t] = @ + 1]
        /\ seen' = [seen EXCEPT ![t] = 0]
        /\ Return(t, RetSome)
    /\ UNCHANGED <<alloc, data, weak_count, DROP_COUNT, free_count, weaks,
                   is_single, aborted>>

\* Mutant of UpgradeCas: the compare-exchange is done on weak_count.
UpgradeCas_WrongCounter(t) ==
    /\ At(t, "upgrade")
    /\ seen[t] # 0
    /\ seen[t] <= HalfMax
    /\ TouchRecord
    /\ \E cur \in LoadWeak :
        \/ /\ cur = seen[t]
           /\ weak_count' = seen[t] + 1
           /\ arcs' = [arcs EXCEPT ![t] = @ + 1]
           /\ seen' = [seen EXCEPT ![t] = 0]
           /\ Return(t, RetSome)
        \/ /\ seen' = [seen EXCEPT ![t] = cur]
           /\ UNCHANGED <<weak_count, arcs, pc, ret>>
    /\ UNCHANGED <<alloc, data, strong_count, DROP_COUNT, free_count, weaks,
                   is_single, aborted>>

\* compare_exchange_weak(strong_count, strong_count + 1)
UpgradeCas(t) ==
    /\ At(t, "upgrade")
    /\ seen[t] # 0
    /\ seen[t] <= HalfMax
    /\ TouchRecord
    /\ \E cur \in LoadStrong :
        \/ /\ cur = seen[t]
           /\ strong_count' = seen[t] + 1
           /\ arcs' = [arcs EXCEPT ![t] = @ + 1]
           /\ seen' = [seen EXCEPT ![t] = 0]
           /\ Return(t, RetSome)
        \/ /\ seen' = [seen EXCEPT ![t] = cur]
           /\ UNCHANGED <<strong_count, arcs, pc, ret>>
    /\ UNCHANGED <<alloc, data, weak_count, DROP_COUNT, free_count, weaks,
                   is_single, aborted>>

\* Mutant of WeakClone: the fetch_add is done on strong_count.
WeakClone_BumpsStrong(t) ==
    /\ At(t, "idle")
    /\ weaks[t] > 0
    /\ RoomWeak
    /\ \E cur \in LoadStrong :
        /\ strong_count' = WrapAdd(cur)
        /\ IF cur > HalfMax
           THEN Goto(t, "weak_clone_abort") /\ UNCHANGED weaks
           ELSE weaks' = [weaks EXCEPT ![t] = @ + 1] /\ UNCHANGED pc
    /\ ret' = [ret EXCEPT ![t] = NoRet]
    /\ TouchRecord
    /\ UNCHANGED <<alloc, data, weak_count, DROP_COUNT, free_count, arcs,
                   seen, is_single, aborted>>

\* Mutant of WeakClone: the pointer is copied without the fetch_add.
WeakClone_PtrCopy(t) ==
    /\ At(t, "idle")
    /\ weaks[t] > 0
    /\ RoomWeak
    /\ \E cur \in LoadWeak :
        /\ weak_count' = cur
        /\ IF cur > HalfMax
           THEN Goto(t, "weak_clone_abort") /\ UNCHANGED weaks
           ELSE weaks' = [weaks EXCEPT ![t] = @ + 1] /\ UNCHANGED pc
    /\ ret' = [ret EXCEPT ![t] = NoRet]
    /\ TouchRecord
    /\ UNCHANGED <<alloc, data, strong_count, DROP_COUNT, free_count, arcs,
                   seen, is_single, aborted>>

\* Mutant of WeakClone: the overflow guard is left out.
WeakClone_NoGuard(t) ==
    /\ At(t, "idle")
    /\ weaks[t] > 0
    /\ RoomWeak
    /\ \E cur \in LoadWeak : weak_count' = WrapAdd(cur)
    /\ weaks' = [weaks EXCEPT ![t] = @ + 1]
    /\ ret' = [ret EXCEPT ![t] = NoRet]
    /\ TouchRecord
    /\ UNCHANGED <<alloc, data, strong_count, DROP_COUNT, free_count, arcs,
                   pc, seen, is_single, aborted>>

\* ------------------------------------------------------------- Weak::clone
WeakClone(t) ==
    /\ At(t, "idle")
    /\ weaks[t] > 0
    /\ RoomWeak
    /\ \E cur \in LoadWeak :
        /\ weak_count' = WrapAdd(cur)
        /\ IF cur > HalfMax
           THEN Goto(t, "weak_clone_abort") /\ UNCHANGED weaks
           ELSE weaks' = [weaks EXCEPT ![t] = @ + 1] /\ UNCHANGED pc
    /\ ret' = [ret EXCEPT ![t] = NoRet]
    /\ TouchRecord
    /\ UNCHANGED <<alloc, data, strong_count, DROP_COUNT, free_count, arcs,
                   seen, is_single, aborted>>

\* Mutant of WeakDrop: the test for the last unit is off by one.
WeakDrop_LastAtTwo(t) ==
    /\ At(t, "idle")
    /\ weaks[t] > 0
    /\ weaks' = [weaks EXCEPT ![t] = @ - 1]
    /\ \E cur \in LoadWeak :
        /\ weak_count' = WrapSub(cur)
        /\ Goto(t, IF cur <= 2 THEN "free" ELSE "idle")
    /\ ret' = [ret EXCEPT ![t] = NoRet]
    /\ TouchRecord
    /\ UNCHANGED <<alloc, data, strong_count, DROP_COUNT, free_count, arcs,
                   seen, is_single, aborted>>

\* -------------------------------------------------------------- Weak::drop
\* weak_count.fetch_sub(1, Release) == 1 ?
WeakDrop(t) ==
    /\ At(t, "idle")
    /\ weaks[t] > 0
    /\ weaks' = [weaks EXCEPT ![t] = @ - 1]
    /\ \E cur \in LoadWeak :
        /\ weak_count' = WrapSub(cur)
        /\ Goto(t, IF cur = 1 THEN "free" ELSE "idle")
    /\ ret' = [ret EXCEPT ![t] = NoRet]
    /\ TouchRecord
    /\ UNCHANGED <<alloc, data, strong_count, DROP_COUNT, free_count, arcs,
                   seen, is_single, aborted>>

\* drop(Box::from_raw(ptr)), reached from Weak::drop and from Arc::drop
FreeRecord(t) ==
    /\ At(t, "free")
    /\ alloc' = "released"
    /\ free_count' = free_count + 1
    /\ uaf' = (uaf \/ alloc # "allocated")
    /\ Goto(t, "idle")
    /\ UNCHANGED <<data, strong_count, weak_count, DROP_COUNT, arcs, weaks,
                   seen, is_single, ret, aborted>>

\* -------------------------------------------------------------------- Next
Next ==
    \/ \E t \in Threads, v \in Values : ArcNew(t, v) /\ OnlyArcWeak
    \/ \E t \in Threads, u \in Threads : SendArc(t, u) /\ OnlyArcWeak
    \/ \E t \in Threads, u \in Threads : SendWeak(t, u) /\ OnlyArcWeak
    \/ \E t \in Threads : Deref(t) /\ OnlyArcWeak
    \/ \E t \in Threads : ArcClone(t) /\ OnlyArcWeak
    \/ \E t \in Threads : Abort(t) /\ OnlyArcWeak
    \/ \E t \in Threads : DowngradeLoad(t) /\ OnlyArcWeak
    \/ \E t \in Threads : DowngradeSpin(t) /\ OnlyArcWeak
    \/ \E t \in Threads : DowngradeAbort(t) /\ OnlyArcWeak
    \/ \E t \in Threads : DowngradeCas(t) /\ OnlyArcWeak
    \/ \E t \in Threads : GetMutCas(t) /\ OnlyArcWeak
    \/ \E t \in Threads : GetMutLoad(t) /\ OnlyArcWeak
    \/ \E t \in Threads : GetMutStore(t) /\ OnlyArcWeak
    \/ \E t \in Threads, v \in Values : MutWrite(t, v) /\ OnlyArcWeak
    \/ \E t \in Threads : MutRelease(t) /\ OnlyArcWeak
    \/ \E t \in Threads : ArcDrop(t) /\ OnlyArcWeak
    \/ \E t \in Threads : ArcDropData(t) /\ OnlyArcWeak
    \/ \E t \in Threads : ArcDropWeak(t) /\ OnlyArcWeak
    \/ \E t \in Threads : UpgradeLoad(t) /\ OnlyArcWeak
    \/ \E t \in Threads : UpgradeNone(t) /\ OnlyArcWeak
    \/ \E t \in Threads : UpgradeAbort(t) /\ OnlyArcWeak
    \/ \E t \in Threads : UpgradeCas(t) /\ OnlyArcWeak
    \/ \E t \in Threads : WeakClone(t) /\ OnlyArcWeak
    \/ \E t \in Threads : WeakDrop(t) /\ OnlyArcWeak
    \/ \E t \in Threads : FreeRecord(t) /\ OnlyArcWeak

Spec == Init /\ [][Next]_vars

\* Any step of thread t.
Step(t) ==
    \/ \E v \in Values : ArcNew(t, v)
    \/ \E u \in Threads : SendArc(t, u)
    \/ \E u \in Threads : SendWeak(t, u)
    \/ Deref(t)
    \/ ArcClone(t)
    \/ Abort(t)
    \/ DowngradeLoad(t)
    \/ DowngradeSpin(t)
    \/ DowngradeAbort(t)
    \/ DowngradeCas(t)
    \/ GetMutCas(t)
    \/ GetMutLoad(t)
    \/ GetMutStore(t)
    \/ \E v \in Values : MutWrite(t, v)
    \/ MutRelease(t)
    \/ ArcDrop(t)
    \/ ArcDropData(t)
    \/ ArcDropWeak(t)
    \/ UpgradeLoad(t)
    \/ UpgradeNone(t)
    \/ UpgradeAbort(t)
    \/ UpgradeCas(t)
    \/ WeakClone(t)
    \/ WeakDrop(t)
    \/ FreeRecord(t)

\* A step of thread t inside an operation it has begun.
Continue(t) == pc[t] # "idle" /\ Step(t) /\ OnlyArcWeak

\* Fair scheduling: a thread that is inside an operation and can take a
\* step that changes the state eventually takes one. No thread is obliged
\* to begin an operation.
FairSpec == Init /\ [][Next]_vars /\ \A t \in Threads : WF_vars(Continue(t))

\* ============================================ Part 2: happens-before
\* The order is kept per thread as the set of threads whose accesses to
\* the payload, all of them so far, happen-before the thread's next step.
\* Only the synchronisation through the strong counter and through the
\* transfer of a handle to another thread is counted, so the order the
\* model has is part of the order the program has.

\* Thread t reads or writes the payload: the access is new to the others.
HbAccess(t) ==
    /\ known' = [x \in Threads |-> IF x = t THEN known[x] ELSE known[x] \ {t}]
    /\ rel' = rel \ {t}

\* A read-modify-write with Ordering::Relaxed continues the release
\* sequences it finds and heads none.
HbRelaxedRmw(t) == UNCHANGED <<known, rel>>

\* Mutant of HbReleaseRmw: the fetch_sub is Ordering::Relaxed and heads no
\* release sequence.
HbReleaseRmw_Relaxed(t) == UNCHANGED <<known, rel>>

\* A read-modify-write with Ordering::Release continues the release
\* sequences it finds and heads one of its own.
HbReleaseRmw(t) ==
    /\ rel' = rel \cup known[t]
    /\ UNCHANGED known

\* fence(Ordering::Acquire) after thread t read the counter: t synchronises
\* with the heads of the release sequences the value read belongs to.
HbAcquireFence(t) == known' = [known EXCEPT ![t] = @ \cup rel]

\* fetch_sub(1, Release) that observes 1, then fence(Acquire).
HbReleaseRmwAcquireFence(t) ==
    /\ rel' = rel \cup known[t]
    /\ HbAcquireFence(t)

\* A handle moves from thread t to thread u (thread::spawn, join): what t
\* did before happens-before what u does after.
HbSend(t, u) ==
    /\ known' = [known EXCEPT ![u] = @ \cup known[t]]
    /\ UNCHANGED rel

\* ====================================================== Part 3: arc_only
NumOnly == SumTo(only_arcs, NThreads)
OnlyAt(t, label) == only_pc[t] = label
OnlyRoom == NumOnly <= MaxHandles
\* A load from a dropped Box may return any word.
OnlyLoad == IF only_alloc = "released" THEN Word ELSE {count}
OnlyTouch == only_uaf' = (only_uaf \/ only_alloc # "allocated")

\* Arc::new: Box::leak(Box::new(ArcData { data, count: 1 }))
OnlyNew(t) ==
    /\ OnlyAt(t, "idle")
    /\ only_alloc = "none"
    /\ only_alloc' = "allocated"
    /\ count' = 1
    /\ only_arcs' = [only_arcs EXCEPT ![t] = 1]
    /\ UNCHANGED <<only_DROP_COUNT, only_pc, only_uaf, hbVars>>

\* A handle is moved to another thread.
OnlySend(t, u) ==
    /\ OnlyAt(t, "idle")
    /\ t # u
    /\ only_arcs[t] > 0
    /\ only_arcs' = [only_arcs EXCEPT ![t] = @ - 1, ![u] = @ + 1]
    /\ HbSend(t, u)
    /\ UNCHANGED <<count, only_alloc, only_DROP_COUNT, only_pc, only_uaf>>

\* Deref::deref and a read of the payload.
OnlyDeref(t) ==
    /\ OnlyAt(t, "idle")
    /\ only_arcs[t] > 0
    /\ OnlyTouch
    /\ HbAccess(t)
    /\ UNCHANGED <<count, only_alloc, only_DROP_COUNT, only_arcs, only_pc>>

\* get_mut: if count.load(Relaxed) == 1 { fence(Acquire); Some } else { None }
OnlyGetMut(t) ==
    /\ OnlyAt(t, "idle")
    /\ only_arcs[t] > 0
    /\ OnlyTouch
    /\ \E cur \in OnlyLoad :
        IF cur = 1
        THEN /\ only_pc' = [only_pc EXCEPT ![t] = "mut_view"]
             /\ HbAcquireFence(t)
             /\ UNCHANGED rel
        ELSE UNCHANGED <<only_pc, hbVars>>
    /\ UNCHANGED <<count, only_alloc, only_DROP_COUNT, only_arcs>>

\* A write through the &mut T that get_mut returned.
OnlyMutWrite(t) ==
    /\ OnlyAt(t, "mut_view")
    /\ OnlyTouch
    /\ HbAccess(t)
    /\ UNCHANGED <<count, only_alloc, only_DROP_COUNT, only_arcs, only_pc>>

\* The borrow of the &mut T ends.
OnlyMutRelease(t) ==
    /\ OnlyAt(t, "mut_view")
    /\ only_pc' = [only_pc EXCEPT ![t] = "idle"]
    /\ UNCHANGED <<count, only_alloc, only_DROP_COUNT, only_arcs, only_uaf,
                   hbVars>>

\* clone: count.fetch_add(1, Relaxed); there is no overflow guard.
OnlyClone(t) ==
    /\ OnlyAt(t, "idle")
    /\ only_arcs[t] > 0
    /\ OnlyRoom
    /\ \E cur \in OnlyLoad : count' = WrapAdd(cur)
    /\ only_arcs' = [only_arcs EXCEPT ![t] = @ + 1]
    /\ OnlyTouch
    /\ HbRelaxedRmw(t)
    /\ UNCHANGED <<only_alloc, only_DROP_COUNT, only_pc>>

\* Mutant of OnlyDrop: the Box is dropped when the count reaches 1, not 0.
OnlyDrop_LastAtTwo(t) ==
    /\ OnlyAt(t, "idle")
    /\ only_arcs[t] > 0
    /\ only_arcs' = [only_arcs EXCEPT ![t] = @ - 1]
    /\ OnlyTouch
    /\ \E cur \in OnlyLoad :
        /\ count' = WrapSub(cur)
        /\ IF cur = 2
           THEN /\ only_pc' = [only_pc EXCEPT ![t] = "drop_box"]
                /\ HbReleaseRmwAcquireFence(t)
           ELSE /\ HbReleaseRmw(t)
                /\ UNCHANGED only_pc
    /\ UNCHANGED <<only_alloc, only_DROP_COUNT>>

\* drop: if count.fetch_sub(1, Release) == 1 { fence(Acquire); ... }
OnlyDrop(t) ==
    /\ OnlyAt(t, "idle")
    /\ only_arcs[t] > 0
    /\ only_arcs' = [only_arcs EXCEPT ![t] = @ - 1]
    /\ OnlyTouch
    /\ \E cur \in OnlyLoad :
        /\ count' = WrapSub(cur)
        /\ IF cur = 1
           THEN /\ only_pc' = [only_pc EXCEPT ![t] = "drop_box"]
                /\ HbReleaseRmwAcquireFence(t)
           ELSE /\ HbReleaseRmw(t)
                /\ UNCHANGED only_pc
    /\ UNCHANGED <<only_alloc, only_DROP_COUNT>>

\* drop(Box::from_raw(ptr)): the payload is destroyed and the allocation
\* released.
OnlyDropBox(t) ==
    /\ OnlyAt(t, "drop_box")
    /\ only_DROP_COUNT' = only_DROP_COUNT + 1
    /\ only_alloc' = "released"
    /\ only_pc' = [only_pc EXCEPT ![t] = "idle"]
    /\ OnlyTouch
    /\ UNCHANGED <<count, only_arcs, hbVars>>

\* A step of arc_only leaves the other parts alone.
OnlyArcOnly == UNCHANGED <<vars, mutexVars, condvarVars, tailVars>>

OnlyNext ==
    \/ \E t \in Threads : OnlyNew(t) /\ OnlyArcOnly
    \/ \E t \in Threads, u \in Threads : OnlySend(t, u) /\ OnlyArcOnly
    \/ \E t \in Threads : OnlyDeref(t) /\ OnlyArcOnly
    \/ \E t \in Threads : OnlyGetMut(t) /\ OnlyArcOnly
    \/ \E t \in Threads : OnlyMutWrite(t) /\ OnlyArcOnly
    \/ \E t \in Threads : OnlyMutRelease(t) /\ OnlyArcOnly
    \/ \E t \in Threads : OnlyClone(t) /\ OnlyArcOnly
    \/ \E t \in Threads : OnlyDrop(t) /\ OnlyArcOnly
    \/ \E t \in Threads : OnlyDropBox(t) /\ OnlyArcOnly

OnlySpec == Init /\ [][OnlyNext]_<<onlyVars, hbVars>>

\* Arc::clone of arc_only with as many handles as the counter can count and
\* one more: count.fetch_add(1, Relaxed) wraps at 2^WordBits.
OnlyCloneWide(t) ==
    /\ OnlyAt(t, "idle")
    /\ only_arcs[t] > 0
    /\ NumOnly <= MAX + 1
    /\ \E cur \in OnlyLoad : count' = WrapAdd(cur)
    /\ only_arcs' = [only_arcs EXCEPT ![t] = @ + 1]
    /\ OnlyTouch
    /\ HbRelaxedRmw(t)
    /\ UNCHANGED <<only_alloc, only_DROP_COUNT, only_pc>>

OnlyWideNext ==
    \/ ~only_uaf /\ OnlyNext
    \/ \E t \in Threads : ~only_uaf /\ OnlyCloneWide(t) /\ OnlyArcOnly

\* arc_only with no bound on the handles below the range of the counter.
\* The program is followed up to its first access to a dropped Box; what it
\* does after that is undefined.
OnlyWideSpec == Init /\ [][OnlyWideNext]_<<onlyVars, hbVars>>

\* ------------------------------------ arc_weak with the happens-before
\* The operations on weak_count and the loads are not counted.
HbNone == UNCHANGED hbVars

\* fetch_sub(1, Release) of Arc::drop, with the fence if it observed 1.
HbArcDrop(t) ==
    IF strong_count = 1 THEN HbReleaseRmwAcquireFence(t) ELSE HbReleaseRmw(t)

\* strong_count.load(Relaxed) of get_mut, with the fence if it read 1.
HbGetMutLoad(t) ==
    IF strong_count = 1 THEN HbAcquireFence(t) /\ UNCHANGED rel ELSE HbNone

\* A step of arc_weak in the specification of the happens-before order.
HbArcWeak == UNCHANGED <<onlyVars, mutexVars, condvarVars, tailVars>>

HbNext ==
    \/ \E t \in Threads, v \in Values :
          only_alloc = "none" /\ ArcNew(t, v) /\ HbNone /\ HbArcWeak
    \/ \E t \in Threads, u \in Threads :
          SendArc(t, u) /\ HbSend(t, u) /\ HbArcWeak
    \/ \E t \in Threads, u \in Threads :
          SendWeak(t, u) /\ HbSend(t, u) /\ HbArcWeak
    \/ \E t \in Threads : Deref(t) /\ HbAccess(t) /\ HbArcWeak
    \/ \E t \in Threads : ArcClone(t) /\ HbRelaxedRmw(t) /\ HbArcWeak
    \/ \E t \in Threads : Abort(t) /\ HbNone /\ HbArcWeak
    \/ \E t \in Threads : DowngradeLoad(t) /\ HbNone /\ HbArcWeak
    \/ \E t \in Threads : DowngradeSpin(t) /\ HbNone /\ HbArcWeak
    \/ \E t \in Threads : DowngradeAbort(t) /\ HbNone /\ HbArcWeak
    \/ \E t \in Threads : DowngradeCas(t) /\ HbNone /\ HbArcWeak
    \/ \E t \in Threads : GetMutCas(t) /\ HbNone /\ HbArcWeak
    \/ \E t \in Threads : GetMutLoad(t) /\ HbGetMutLoad(t) /\ HbArcWeak
    \/ \E t \in Threads : GetMutStore(t) /\ HbNone /\ HbArcWeak
    \/ \E t \in Threads, v \in Values :
          MutWrite(t, v) /\ HbAccess(t) /\ HbArcWeak
    \/ \E t \in Threads : MutRelease(t) /\ HbNone /\ HbArcWeak
    \/ \E t \in Threads : ArcDrop(t) /\ HbArcDrop(t) /\ HbArcWeak
    \/ \E t \in Threads : ArcDropData(t) /\ HbNone /\ HbArcWeak
    \/ \E t \in Threads : ArcDropWeak(t) /\ HbNone /\ HbArcWeak
    \/ \E t \in Threads : UpgradeLoad(t) /\ HbNone /\ HbArcWeak
    \/ \E t \in Threads : UpgradeNone(t) /\ HbNone /\ HbArcWeak
    \/ \E t \in Threads : UpgradeAbort(t) /\ HbNone /\ HbArcWeak
    \/ \E t \in Threads : UpgradeCas(t) /\ HbRelaxedRmw(t) /\ HbArcWeak
    \/ \E t \in Threads : WeakClone(t) /\ HbNone /\ HbArcWeak
    \/ \E t \in Threads : WeakDrop(t) /\ HbNone /\ HbArcWeak
    \/ \E t \in Threads : FreeRecord(t) /\ HbNone /\ HbArcWeak
    \/ \E t \in Threads : alloc = "none" /\ OnlyNew(t) /\ OnlyArcOnly
    \/ \E t \in Threads, u \in Threads : OnlySend(t, u) /\ OnlyArcOnly
    \/ \E t \in Threads : OnlyDeref(t) /\ OnlyArcOnly
    \/ \E t \in Threads : OnlyGetMut(t) /\ OnlyArcOnly
    \/ \E t \in Threads : OnlyMutWrite(t) /\ OnlyArcOnly
    \/ \E t \in Threads : OnlyMutRelease(t) /\ OnlyArcOnly
    \/ \E t \in Threads : OnlyClone(t) /\ OnlyArcOnly
    \/ \E t \in Threads : OnlyDrop(t) /\ OnlyArcOnly
    \/ \E t \in Threads : OnlyDropBox(t) /\ OnlyArcOnly

\* One allocation, of arc_weak or of arc_only, and the happens-before
\* order of the accesses to its payload.
HbSpec == Init /\ [][HbNext]_<<vars, hbVars, onlyVars>>

\* ================================================ Part 4: futex mutexes
\* mutex-rs/src/mutex_simple.rs (state 0 unlocked, 1 locked) and
\* mutex-rs/src/mutex_spin.rs (0 unlocked, 1 locked, 2 locked with
\* waiters), each shared by the threads of tests::it_works.  The futex
\* calls are those of condvar-rs/src/futex.rs.

\* The threads asleep in futex::wait on Mutex.state.
Sleepers == {t \in Threads : mpc[t] \in {"asleep", "spin_asleep"}}

\* Where a thread goes on when futex::wait returns.
Awake(t) == IF mpc[t] = "asleep" THEN "lock_swap" ELSE "spin_swap"

\* futex::wake(&state, 1): one of the threads asleep on the word, if there
\* is any, returns from futex::wait; the caller t goes to label next.
FutexWakeState(t, next) ==
    \/ /\ Sleepers = {}
       /\ mpc' = [mpc EXCEPT ![t] = next]
    \/ \E s \in Sleepers :
          mpc' = [mpc EXCEPT ![t] = next, ![s] = Awake(s)]

\* A call of lock(); the caller goes on at label after when it returns.
CallLock(t, after) ==
    /\ mpc' = [mpc EXCEPT ![t] = IF variant = "simple" THEN "lock_swap"
                                                        ELSE "spin_cas"]
    /\ cont' = [cont EXCEPT ![t] = after]

\* lock() returns MutexGuard { mutex: self }.
ReturnGuard(t) ==
    /\ guard' = [guard EXCEPT ![t] = TRUE]
    /\ mpc' = [mpc EXCEPT ![t] = cont[t]]

\* The guard of t goes out of scope; t goes on at label after when the
\* drop returns.
CallDrop(t, after) ==
    /\ mpc' = [mpc EXCEPT ![t] = IF variant = "simple" THEN "drop_store"
                                                        ELSE "spin_drop"]
    /\ cont' = [cont EXCEPT ![t] = after]

\* for _ in 0..N { *m.lock() += 1; }: the next round begins, or the thread
\* ends.
TestLock(t) ==
    /\ mpc[t] = "start"
    /\ IF todo[t] > 0
       THEN CallLock(t, "read")
       ELSE mpc' = [mpc EXCEPT ![t] = "done"] /\ UNCHANGED cont
    /\ UNCHANGED <<variant, state, guard, value, tmp, spin, todo>>

\* Mutant of SimpleLockSwap: the result of the swap is not looked at.
SimpleLockSwap_Unchecked(t) ==
    /\ mpc[t] = "lock_swap"
    /\ state' = 1
    /\ ReturnGuard(t)
    /\ UNCHANGED <<variant, cont, value, tmp, spin, todo>>

\* mutex_simple: while state.swap(1, Acquire) == 1 { futex::wait }
SimpleLockSwap(t) ==
    /\ mpc[t] = "lock_swap"
    /\ state' = 1
    /\ IF state = 1
       THEN mpc' = [mpc EXCEPT ![t] = "lock_wait"] /\ UNCHANGED guard
       ELSE ReturnGuard(t)
    /\ UNCHANGED <<variant, cont, value, tmp, spin, todo>>

\* mutex_simple: futex::wait(&state, 1): sleep if the word is still 1.
SimpleLockWait(t) ==
    /\ mpc[t] = "lock_wait"
    /\ mpc' = [mpc EXCEPT ![t] = IF state = 1 THEN "asleep" ELSE "lock_swap"]
    /\ UNCHANGED <<variant, state, guard, cont, value, tmp, spin, todo>>

\* mutex_simple: MutexGuard::drop, state.store(0, Release)
SimpleDropStore(t) ==
    /\ mpc[t] = "drop_store"
    /\ state' = 0
    /\ guard' = [guard EXCEPT ![t] = FALSE]
    /\ mpc' = [mpc EXCEPT ![t] = "drop_wake"]
    /\ UNCHANGED <<variant, cont, value, tmp, spin, todo>>

\* mutex_simple: MutexGuard::drop, futex::wake(&state, 1)
SimpleDropWake(t) ==
    /\ mpc[t] = "drop_wake"
    /\ FutexWakeState(t, cont[t])
    /\ UNCHANGED <<variant, state, guard, cont, value, tmp, spin, todo>>

\* mutex_spin: compare_exchange(0, 1), else let mut count = 100
SpinLockCas(t) ==
    /\ mpc[t] = "spin_cas"
    /\ IF state = 0
       THEN state' = 1 /\ ReturnGuard(t) /\ UNCHANGED spin
       ELSE /\ mpc' = [mpc EXCEPT ![t] = "spin_spin"]
            /\ spin' = [spin EXCEPT ![t] = SpinLimit]
            /\ UNCHANGED <<state, guard>>
    /\ UNCHANGED <<variant, cont, value, tmp, todo>>

\* mutex_spin: while state.load(Relaxed) == 1 && count > 0 { count -= 1 }
SpinLockSpin(t) ==
    /\ mpc[t] = "spin_spin"
    /\ IF state = 1 /\ spin[t] > 0
       THEN spin' = [spin EXCEPT ![t] = @ - 1] /\ UNCHANGED mpc
       ELSE mpc' = [mpc EXCEPT ![t] = "spin_cas2"] /\ UNCHANGED spin
    /\ UNCHANGED <<variant, state, guard, cont, value, tmp, todo>>

\* mutex_spin: the second compare_exchange(0, 1)
SpinLockCasAgain(t) ==
    /\ mpc[t] = "spin_cas2"
    /\ IF state = 0
       THEN state' = 1 /\ ReturnGuard(t)
       ELSE /\ mpc' = [mpc EXCEPT ![t] = "spin_swap"]
            /\ UNCHANGED <<state, guard>>
    /\ UNCHANGED <<variant, cont, value, tmp, spin, todo>>

\* mutex_spin: while state.swap(2, Acquire) != 0 { futex::wait }
SpinLockSwap(t) ==
    /\ mpc[t] = "spin_swap"
    /\ state' = 2
    /\ IF state # 0
       THEN mpc' = [mpc EXCEPT ![t] = "spin_wait"] /\ UNCHANGED guard
       ELSE ReturnGuard(t)
    /\ UNCHANGED <<variant, cont, value, tmp, spin, todo>>

\* mutex_spin: futex::wait(&state, 2): sleep if the word is still 2.
SpinLockWait(t) ==
    /\ mpc[t] = "spin_wait"
    /\ mpc' = [mpc EXCEPT ![t] = IF state = 2 THEN "spin_asleep"
                                              ELSE "spin_swap"]
    /\ UNCHANGED <<variant, state, guard, cont, value, tmp, spin, todo>>

\* Mutant of SpinDropSwap: the drop never calls futex wake.
SpinDropSwap_NoWake(t) ==
    /\ mpc[t] = "spin_drop"
    /\ state' = 0
    /\ guard' = [guard EXCEPT ![t] = FALSE]
    /\ mpc' = [mpc EXCEPT ![t] = cont[t]]
    /\ UNCHANGED <<variant, cont, value, tmp, spin, todo>>

\* mutex_spin: MutexGuard::drop, if state.swap(0, Release) == 2 { wake }
SpinDropSwap(t) ==
    /\ mpc[t] = "spin_drop"
    /\ state' = 0
    /\ guard' = [guard EXCEPT ![t] = FALSE]
    /\ mpc' = [mpc EXCEPT ![t] = IF state = 2 THEN "spin_drop_wake"
                                              ELSE cont[t]]
    /\ UNCHANGED <<variant, cont, value, tmp, spin, todo>>

\* mutex_spin: MutexGuard::drop, futex::wake(&state, 1)
SpinDropWake(t) ==
    /\ mpc[t] = "spin_drop_wake"
    /\ FutexWakeState(t, cont[t])
    /\ UNCHANGED <<variant, state, guard, cont, value, tmp, spin, todo>>

\* futex::wait returns although no futex::wake chose the thread.
SpuriousWake(t) ==
    /\ t \in Sleepers
    /\ mpc' = [mpc EXCEPT ![t] = Awake(t)]
    /\ UNCHANGED <<variant, state, guard, cont, value, tmp, spin, todo>>

\* *guard += 1, the read through DerefMut
TestRead(t) ==
    /\ mpc[t] = "read"
    /\ tmp' = [tmp EXCEPT ![t] = value]
    /\ mpc' = [mpc EXCEPT ![t] = "write"]
    /\ UNCHANGED <<variant, state, guard, cont, value, spin, todo>>

\* *guard += 1, the write; the guard is dropped at the end of the statement
TestWrite(t) ==
    /\ mpc[t] = "write"
    /\ value' = tmp[t] + 1
    /\ todo' = [todo EXCEPT ![t] = @ - 1]
    /\ CallDrop(t, "start")
    /\ UNCHANGED <<variant, state, guard, tmp, spin>>

\* A step of the mutex test leaves the other parts alone.
OnlyMutex == UNCHANGED <<vars, hbVars, onlyVars, condvarVars, tailVars>>

MutexNext ==
    \/ \E t \in Threads : TestLock(t) /\ OnlyMutex
    \/ \E t \in Threads : SimpleLockSwap(t) /\ OnlyMutex
    \/ \E t \in Threads : SimpleLockWait(t) /\ OnlyMutex
    \/ \E t \in Threads : SimpleDropStore(t) /\ OnlyMutex
    \/ \E t \in Threads : SimpleDropWake(t) /\ OnlyMutex
    \/ \E t \in Threads : SpinLockCas(t) /\ OnlyMutex
    \/ \E t \in Threads : SpinLockSpin(t) /\ OnlyMutex
    \/ \E t \in Threads : SpinLockCasAgain(t) /\ OnlyMutex
    \/ \E t \in Threads : SpinLockSwap(t) /\ OnlyMutex
    \/ \E t \in Threads : SpinLockWait(t) /\ OnlyMutex
    \/ \E t \in Threads : SpinDropSwap(t) /\ OnlyMutex
    \/ \E t \in Threads : SpinDropWake(t) /\ OnlyMutex
    \/ \E t \in Threads : SpuriousWake(t) /\ OnlyMutex
    \/ \E t \in Threads : TestRead(t) /\ OnlyMutex
    \/ \E t \in Threads : TestWrite(t) /\ OnlyMutex

\* tests::it_works of either mutex: Mutex::new(0) and the threads of the
\* scope, each with its rounds to make.
MutexTestInit ==
    /\ ArcWeakInit
    /\ HbInit
    /\ OnlyInit
    /\ CondvarInit
    /\ TailInit
    /\ \E which \in {"simple", "spin"} : MutexInit(which, Increments)

MutexSpec == MutexTestInit /\ [][MutexNext]_mutexVars

\* A step of thread t in the mutex test that the thread takes by running.
\* A return of futex::wait without a wake is left out: nothing obliges the
\* kernel to make one.
MutexStep(t) ==
    /\ \/ TestLock(t)
       \/ SimpleLockSwap(t)
       \/ SimpleLockWait(t)
       \/ SimpleDropStore(t)
       \/ SimpleDropWake(t)
       \/ SpinLockCas(t)
       \/ SpinLockSpin(t)
       \/ SpinLockCasAgain(t)
       \/ SpinLockSwap(t)
       \/ SpinLockWait(t)
       \/ SpinDropSwap(t)
       \/ SpinDropWake(t)
       \/ TestRead(t)
       \/ TestWrite(t)
    /\ OnlyMutex

\* Fair scheduling of the threads of the test: a thread that is not asleep
\* in futex::wait keeps running, so every holder drops its guard.
MutexFairSpec ==
    /\ MutexTestInit
    /\ [][MutexNext]_mutexVars
    /\ \A t \in Threads : WF_mutexVars(MutexStep(t))

\* ======================================================= Part 5: condvar
\* condvar-rs/src/condvar_simple.rs with the mutex of mutex_simple, run as
\* in tests::it_works: thread 1 is the consumer, the other threads are
\* producers, each of which produces and notifies todo times.
Consumer == 1
Producers == Threads \ {Consumer}
\* The values of Condvar.counter.
CounterWrap == 2^CounterBits

\* The threads asleep in futex::wait on Condvar.counter.
CvSleepers == {t \in Threads : mpc[t] = "cv_asleep"}

\* Thread t has loaded the counter in wait and has not yet made its
\* futex::wait call.
InWindow(t) ==
    \/ mpc[t] = "wait_futex"
    \/ mpc[t] \in {"drop_store", "drop_wake"} /\ cont[t] = "wait_futex"

\* Thread t is inside Condvar::wait.
InWait(t) ==
    \/ InWindow(t)
    \/ mpc[t] = "cv_asleep"
    \/ mpc[t] \in {"lock_swap", "lock_wait", "asleep"} /\ cont[t] = "c_woke"

\* consumer: let mut resource = m.lock()
ConsumerLock(t) ==
    /\ t = Consumer
    /\ mpc[t] = "start"
    /\ CallLock(t, "c_test")
    /\ UNCHANGED <<variant, state, guard, value, tmp, spin, todo>>
    /\ UNCHANGED condvarVars

\* consumer: while resource.count == 0 { resource = cv.wait(resource) };
\* wait begins with let counter = self.counter.load(Relaxed); drop(guard)
ConsumerTest(t) ==
    /\ mpc[t] \in {"c_test", "c_woke"}
    /\ IF resource = 0
       THEN /\ tmp' = [tmp EXCEPT ![t] = counter]
            /\ CallDrop(t, "wait_futex")
       ELSE /\ mpc' = [mpc EXCEPT ![t] = "c_take"]
            /\ UNCHANGED <<tmp, cont>>
    /\ since' = [since EXCEPT ![t] = 0]
    /\ UNCHANGED <<variant, state, guard, value, spin, todo, counter,
                   resource>>

\* wait: futex::wait(&self.counter, counter), then mutex.lock()
WaitFutex(t) ==
    /\ mpc[t] = "wait_futex"
    /\ IF counter = tmp[t]
       THEN mpc' = [mpc EXCEPT ![t] = "cv_asleep"] /\ UNCHANGED cont
       ELSE CallLock(t, "c_woke")
    /\ since' = [since EXCEPT ![t] = 0]
    /\ UNCHANGED <<variant, state, guard, value, tmp, spin, todo, counter,
                   resource>>

\* futex::wait on the counter returns although no wake chose the thread.
CvSpuriousWake(t) ==
    /\ mpc[t] = "cv_asleep"
    /\ CallLock(t, "c_woke")
    /\ UNCHANGED <<variant, state, guard, value, tmp, spin, todo>>
    /\ UNCHANGED condvarVars

\* consumer: resource.count -= 1; the guard is dropped at the end of the
\* scope.
ConsumerTake(t) ==
    /\ mpc[t] = "c_take"
    /\ resource' = resource - 1
    /\ CallDrop(t, "done")
    /\ UNCHANGED <<variant, state, guard, value, tmp, spin, todo, counter,
                   since>>

\* producer: m.lock() of the next round, or the thread ends.
ProducerLock(t) ==
    /\ t \in Producers
    /\ mpc[t] = "start"
    /\ IF todo[t] > 0
       THEN CallLock(t, "p_inc")
       ELSE mpc' = [mpc EXCEPT ![t] = "done"] /\ UNCHANGED cont
    /\ UNCHANGED <<variant, state, guard, value, tmp, spin, todo>>
    /\ UNCHANGED condvarVars

\* producer: m.lock().count += 1; the guard is dropped at the end of the
\* statement.
ProducerInc(t) ==
    /\ mpc[t] = "p_inc"
    /\ resource' = resource + 1
    /\ CallDrop(t, "notify_add")
    /\ UNCHANGED <<variant, state, guard, value, tmp, spin, todo, counter,
                   since>>

\* notify_one: self.counter.fetch_add(1, Relaxed)
NotifyAdd(t) ==
    /\ mpc[t] = "notify_add"
    /\ counter' = (counter + 1) % CounterWrap
    /\ since' = [c \in Threads |->
                    IF InWindow(c) /\ since[c] < CounterWrap
                    THEN since[c] + 1 ELSE since[c]]
    /\ mpc' = [mpc EXCEPT ![t] = "notify_wake"]
    /\ UNCHANGED <<variant, state, guard, cont, value, tmp, spin, todo,
                   resource>>

\* notify_one: futex::wake(&self.counter, 1); the round of the producer
\* ends.
NotifyWake(t) ==
    /\ mpc[t] = "notify_wake"
    /\ \/ /\ CvSleepers = {}
          /\ mpc' = [mpc EXCEPT ![t] = "start"]
          /\ UNCHANGED cont
       \/ \E c \in CvSleepers :
          /\ mpc' = [mpc EXCEPT ![t] = "start", ![c] = "lock_swap"]
          /\ cont' = [cont EXCEPT ![c] = "c_woke"]
    /\ todo' = [todo EXCEPT ![t] = @ - 1]
    /\ UNCHANGED <<variant, state, guard, value, tmp, spin>>
    /\ UNCHANGED condvarVars

\* A step of the condvar test leaves the other parts alone.
OnlyCondvar == UNCHANGED <<vars, hbVars, onlyVars, tailVars>>

\* A step of thread t in the condvar test, other than a spurious return
\* of futex::wait.
CondvarStep(t) ==
    \/ ConsumerLock(t) /\ OnlyCondvar
    \/ ConsumerTest(t) /\ OnlyCondvar
    \/ WaitFutex(t) /\ OnlyCondvar
    \/ ConsumerTake(t) /\ OnlyCondvar
    \/ ProducerLock(t) /\ OnlyCondvar
    \/ ProducerInc(t) /\ OnlyCondvar
    \/ NotifyAdd(t) /\ OnlyCondvar
    \/ NotifyWake(t) /\ OnlyCondvar
    \/ SimpleLockSwap(t) /\ OnlyMutex
    \/ SimpleLockWait(t) /\ OnlyMutex
    \/ SimpleDropStore(t) /\ OnlyMutex
    \/ SimpleDropWake(t) /\ OnlyMutex

CondvarNext ==
    \/ \E t \in Threads : ConsumerLock(t) /\ OnlyCondvar
    \/ \E t \in Threads : ConsumerTest(t) /\ OnlyCondvar
    \/ \E t \in Threads : WaitFutex(t) /\ OnlyCondvar
    \/ \E t \in Threads : CvSpuriousWake(t) /\ OnlyCondvar
    \/ \E t \in Threads : ConsumerTake(t) /\ OnlyCondvar
    \/ \E t \in Threads : ProducerLock(t) /\ OnlyCondvar
    \/ \E t \in Threads : ProducerInc(t) /\ OnlyCondvar
    \/ \E t \in Threads : NotifyAdd(t) /\ OnlyCondvar
    \/ \E t \in Threads : NotifyWake(t) /\ OnlyCondvar
    \/ \E t \in Threads : SimpleLockSwap(t) /\ OnlyMutex
    \/ \E t \in Threads : SimpleLockWait(t) /\ OnlyMutex
    \/ \E t \in Threads : SimpleDropStore(t) /\ OnlyMutex
    \/ \E t \in Threads : SimpleDropWake(t) /\ OnlyMutex
    \/ \E t \in Threads : SpuriousWake(t) /\ OnlyMutex

\* tests::it_works: Mutex::new(Resource { count: 0 }), Condvar::new(), the
\* consumer and the producers.
CondvarTestInit ==
    /\ ArcWeakInit
    /\ HbInit
    /\ OnlyInit
    /\ MutexInit("simple", Notifications)
    /\ CondvarInit
    /\ TailInit

\* Fair scheduling: every thread that can take a step of its program
\* eventually takes one; a spurious return of futex::wait never has to
\* happen.
CondvarSpec ==
    /\ CondvarTestInit
    /\ [][CondvarNext]_<<mutexVars, condvarVars>>
    /\ \A t \in Threads : WF_<<mutexVars, condvarVars>>(CondvarStep(t))

\* ====================================================== Part 6: channels
\* channel-rs/src/channel_oneshot_arc.rs, run as in its tests it_works,
\* send_then_receive and receive_then_send.  Every atomic operation on
\* Channel.state is one step; the accesses to the fields that follow it in
\* the same thread are part of the step.
OneshotTests == {"it_works", "send_then_receive", "receive_then_send"}

\* drop of a Sender or Receiver: the Arc<Channel> loses a strong handle and
\* the last one runs Channel::drop with the state st.
ChanAfterDrop(st) ==
    IF os_handles = 1
    THEN IF st = RX_READY THEN "panicked" ELSE "dropped"
    ELSE os_chan

\* Channel::drop drops the data when the state is DATA_READY.
DataAfterDrop(st, d) ==
    IF os_handles = 1 /\ st = DATA_READY THEN <<>> ELSE d

\* assume_init_read of Channel.data: the value written, or whatever the
\* uninitialised memory holds.
DataRead == IF os_data = <<>> THEN Values ELSE {os_data[1]}

\* receive_then_send: while tx.channel.state.load(Relaxed) != RX_READY {}
TestSpin ==
    /\ os_pc.tx = "spin"
    /\ os_state = RX_READY
    /\ os_pc' = [os_pc EXCEPT !.tx = "send_write"]
    /\ UNCHANGED <<os_test, os_sent, os_state, os_data, os_rx_thread,
                   os_token, os_ret, os_handles, os_chan, os_ub>>

\* send: (*self.channel.data.get()).write(t)
SendWrite ==
    /\ os_pc.tx = "send_write"
    /\ os_data' = <<os_sent>>
    /\ os_pc' = [os_pc EXCEPT !.tx = "send_cas"]
    /\ UNCHANGED <<os_test, os_sent, os_state, os_rx_thread, os_token,
                   os_ret, os_handles, os_chan, os_ub>>

\* send: compare_exchange(EMPTY, DATA_READY, Release, Acquire); when it
\* succeeds send is at its end.
SendCas ==
    /\ os_pc.tx = "send_cas"
    /\ IF os_state = EMPTY
       THEN /\ os_state' = DATA_READY
            /\ os_pc' = [os_pc EXCEPT !.tx = "send_end"]
       ELSE /\ os_pc' = [os_pc EXCEPT !.tx = "send_store"]
            /\ UNCHANGED os_state
    /\ UNCHANGED <<os_test, os_sent, os_data, os_rx_thread, os_token,
                   os_ret, os_handles, os_chan, os_ub>>

\* send: self.channel.state.store(DATA_READY, Release)
SendStore ==
    /\ os_pc.tx = "send_store"
    /\ os_state' = DATA_READY
    /\ os_pc' = [os_pc EXCEPT !.tx = "send_unpark"]
    /\ UNCHANGED <<os_test, os_sent, os_data, os_rx_thread, os_token,
                   os_ret, os_handles, os_chan, os_ub>>

\* Mutant of SendUnpark: the receiver is not unparked.
SendUnpark_NoWake ==
    /\ os_pc.tx = "send_unpark"
    /\ os_ub' = (os_ub \/ ~os_rx_thread)
    /\ os_rx_thread' = FALSE
    /\ os_pc' = [os_pc EXCEPT !.tx = "send_end"]
    /\ UNCHANGED <<os_test, os_sent, os_state, os_data, os_token, os_ret,
                   os_handles, os_chan>>

\* send: (*self.channel.rx_thread.get()).assume_init_read().unpark(); send
\* is at its end.
SendUnpark ==
    /\ os_pc.tx = "send_unpark"
    /\ os_ub' = (os_ub \/ ~os_rx_thread)
    /\ os_rx_thread' = FALSE
    /\ os_token' = TRUE
    /\ os_pc' = [os_pc EXCEPT !.tx = "send_end"]
    /\ UNCHANGED <<os_test, os_sent, os_state, os_data, os_ret, os_handles,
                   os_chan>>

\* send returns: self, the Sender, is dropped, and with the last handle
\* the Channel.
SendEnd ==
    /\ os_pc.tx = "send_end"
    /\ os_pc' = [os_pc EXCEPT !.tx = "done"]
    /\ os_handles' = os_handles - 1
    /\ os_chan' = ChanAfterDrop(os_state)
    /\ os_data' = DataAfterDrop(os_state, os_data)
    /\ UNCHANGED <<os_test, os_sent, os_state, os_rx_thread, os_token,
                   os_ret, os_ub>>

\* receive: (*self.channel.rx_thread.get()).write(thread::current()); in
\* send_then_receive the call follows the return of send.
RecvWrite ==
    /\ os_pc.rx = "recv_write"
    /\ os_test = "send_then_receive" => os_pc.tx = "done"
    /\ os_rx_thread' = TRUE
    /\ os_pc' = [os_pc EXCEPT !.rx = "recv_cas"]
    /\ UNCHANGED <<os_test, os_sent, os_state, os_data, os_token, os_ret,
                   os_handles, os_chan, os_ub>>

\* receive: compare_exchange(EMPTY, RX_READY, Release, Acquire)
RecvCas ==
    /\ os_pc.rx = "recv_cas"
    /\ IF os_state = EMPTY
       THEN /\ os_state' = RX_READY
            /\ os_pc' = [os_pc EXCEPT !.rx = "recv_loop"]
       ELSE /\ os_pc' = [os_pc EXCEPT !.rx = "recv_take"]
            /\ UNCHANGED os_state
    /\ UNCHANGED <<os_test, os_sent, os_data, os_rx_thread, os_token,
                   os_ret, os_handles, os_chan, os_ub>>

\* receive, the sender was first, without the store of EMPTY: the state
\* stays DATA_READY after the data has been read.
RecvTake_KeepsState ==
    /\ os_pc.rx = "recv_take"
    /\ os_ub' = (os_ub \/ ~os_rx_thread \/ os_data = <<>>)
    /\ os_rx_thread' = FALSE
    /\ \E v \in DataRead : os_ret' = RetVal(v)
    /\ os_data' = <<>>
    /\ os_pc' = [os_pc EXCEPT !.rx = "recv_end"]
    /\ UNCHANGED <<os_test, os_sent, os_state, os_token, os_handles,
                   os_chan>>

\* receive, the sender was first: state.store(EMPTY, Relaxed), drop of
\* rx_thread, read of the data.
RecvTake ==
    /\ os_pc.rx = "recv_take"
    /\ os_state' = EMPTY
    /\ os_ub' = (os_ub \/ ~os_rx_thread \/ os_data = <<>>)
    /\ os_rx_thread' = FALSE
    /\ \E v \in DataRead : os_ret' = RetVal(v)
    /\ os_data' = <<>>
    /\ os_pc' = [os_pc EXCEPT !.rx = "recv_end"]
    /\ UNCHANGED <<os_test, os_sent, os_token, os_handles, os_chan>>

\* receive, the receiver was first:
\* while compare_exchange(DATA_READY, EMPTY, Acquire, Relaxed).is_err(),
\* then the read of the data.
RecvLoop ==
    /\ os_pc.rx = "recv_loop"
    /\ IF os_state = DATA_READY
       THEN /\ os_state' = EMPTY
            /\ os_ub' = (os_ub \/ os_data = <<>>)
            /\ \E v \in DataRead : os_ret' = RetVal(v)
            /\ os_data' = <<>>
            /\ os_pc' = [os_pc EXCEPT !.rx = "recv_end"]
       ELSE /\ os_pc' = [os_pc EXCEPT !.rx = "recv_park"]
            /\ UNCHANGED <<os_state, os_ub, os_ret, os_data>>
    /\ UNCHANGED <<os_test, os_sent, os_rx_thread, os_token, os_handles,
                   os_chan>>

\* receive returns the data: self, the Receiver, is dropped, and with the
\* last handle the Channel.
RecvEnd ==
    /\ os_pc.rx = "recv_end"
    /\ os_pc' = [os_pc EXCEPT !.rx = "done"]
    /\ os_handles' = os_handles - 1
    /\ os_chan' = ChanAfterDrop(os_state)
    /\ os_data' = DataAfterDrop(os_state, os_data)
    /\ UNCHANGED <<os_test, os_sent, os_state, os_rx_thread, os_token,
                   os_ret, os_ub>>

\* receive: thread::park() returns because the token is there, and takes
\* it.
RecvPark ==
    /\ os_pc.rx = "recv_park"
    /\ os_token
    /\ os_token' = FALSE
    /\ os_pc' = [os_pc EXCEPT !.rx = "recv_loop"]
    /\ UNCHANGED <<os_test, os_sent, os_state, os_data, os_rx_thread,
                   os_ret, os_handles, os_chan, os_ub>>

\* receive: thread::park() returns spuriously.
RecvSpurious ==
    /\ os_pc.rx = "recv_park"
    /\ ~os_token
    /\ os_pc' = [os_pc EXCEPT !.rx = "recv_loop"]
    /\ UNCHANGED <<os_test, os_sent, os_state, os_data, os_rx_thread,
                   os_token, os_ret, os_handles, os_chan, os_ub>>

\* A step of the oneshot channel leaves the other parts alone.
OnlyOneshot ==
    UNCHANGED <<vars, hbVars, onlyVars, mutexVars, condvarVars, cmVars,
                slVars, drainVars, gcdVars, bstVars>>

\* The steps of the sending thread and of the receiving thread, other than
\* a spurious return of park.
SenderStep ==
    (TestSpin \/ SendWrite \/ SendCas \/ SendStore \/ SendUnpark \/ SendEnd)
    /\ OnlyOneshot
ReceiverStep ==
    (RecvWrite \/ RecvCas \/ RecvTake \/ RecvLoop \/ RecvPark \/ RecvEnd)
    /\ OnlyOneshot

OneshotNext ==
    \/ TestSpin /\ OnlyOneshot
    \/ SendWrite /\ OnlyOneshot
    \/ SendCas /\ OnlyOneshot
    \/ SendStore /\ OnlyOneshot
    \/ SendUnpark /\ OnlyOneshot
    \/ SendEnd /\ OnlyOneshot
    \/ RecvWrite /\ OnlyOneshot
    \/ RecvCas /\ OnlyOneshot
    \/ RecvTake /\ OnlyOneshot
    \/ RecvLoop /\ OnlyOneshot
    \/ RecvPark /\ OnlyOneshot
    \/ RecvEnd /\ OnlyOneshot
    \/ RecvSpurious /\ OnlyOneshot

\* The three tests, each with a value to send.
OneshotTestInit ==
    /\ ArcWeakInit
    /\ HbInit
    /\ OnlyInit
    /\ MutexInit("simple", 0)
    /\ CondvarInit
    /\ CmInit([t \in CmReceivers |-> 0])
    /\ SlInit("v1", 0)
    /\ DrainInit
    /\ GcdInit(0, 0)
    /\ BstInit
    /\ \E test \in OneshotTests, v \in Values : OneshotInit(test, v)

\* Fair scheduling: the sending and the receiving thread each take the
\* steps they can take; a spurious return of park never has to happen.
OneshotSpec ==
    /\ OneshotTestInit
    /\ [][OneshotNext]_oneshotVars
    /\ WF_oneshotVars(SenderStep)
    /\ WF_oneshotVars(ReceiverStep)

\* tests::drop_data: drop(rx), the Receiver is dropped without a call of
\* receive; with the last handle the Channel is dropped.  The test drops it
\* after send has returned; a Receiver owned by another thread is dropped
\* at any time.
RecvDrop ==
    /\ os_pc.rx = "rx_drop"
    /\ os_pc' = [os_pc EXCEPT !.rx = "done"]
    /\ os_handles' = os_handles - 1
    /\ os_chan' = ChanAfterDrop(os_state)
    /\ os_data' = DataAfterDrop(os_state, os_data)
    /\ UNCHANGED <<os_test, os_sent, os_state, os_rx_thread, os_token,
                   os_ret, os_ub>>

OneshotDropNext ==
    \/ OneshotNext
    \/ RecvDrop /\ OnlyOneshot

\* The three tests and tests::drop_data, each with a value to send.
OneshotDropInit ==
    /\ ArcWeakInit
    /\ HbInit
    /\ OnlyInit
    /\ MutexInit("simple", 0)
    /\ CondvarInit
    /\ CmInit([t \in CmReceivers |-> 0])
    /\ SlInit("v1", 0)
    /\ DrainInit
    /\ GcdInit(0, 0)
    /\ BstInit
    /\ \E test \in OneshotTests \cup {"drop_data"}, v \in Values :
          OneshotInit(test, v)

OneshotDropSpec == OneshotDropInit /\ [][OneshotDropNext]_oneshotVars

\* channel-rs/src/channel_mutex.rs over std's Mutex and Condvar: lock
\* blocks until the mutex is free, wait releases the mutex and blocks until
\* a notify_one chooses the thread or it returns spuriously, and locks
\* again before it returns.

\* send: self.queue.lock().unwrap()
CmSendLock(t) ==
    /\ cm_pc[t] = "idle"
    /\ cm_send[t] # <<>>
    /\ cm_lock = 0
    /\ cm_lock' = t
    /\ cm_pc' = [cm_pc EXCEPT ![t] = "send_push"]
    /\ UNCHANGED <<cm_queue, cm_waiting, cm_send, cm_recv, cm_got,
                   cm_entered, cm_popped, cm_spurious>>

\* send: push_back(t); the guard is dropped at the end of the statement.
CmSendPush(t) ==
    /\ cm_pc[t] = "send_push"
    /\ cm_queue' = Append(cm_queue, Head(cm_send[t]))
    /\ cm_entered' = Append(cm_entered, Head(cm_send[t]))
    /\ cm_lock' = 0
    /\ cm_pc' = [cm_pc EXCEPT ![t] = "send_notify"]
    /\ UNCHANGED <<cm_waiting, cm_send, cm_recv, cm_got, cm_popped,
                   cm_spurious>>

\* send: self.ready.notify_one(): one of the waiting threads, if there is
\* one, leaves the wait.
CmSendNotify(t) ==
    /\ cm_pc[t] = "send_notify"
    /\ \/ /\ cm_waiting = {}
          /\ cm_pc' = [cm_pc EXCEPT ![t] = "idle"]
          /\ UNCHANGED cm_waiting
       \/ \E w \in cm_waiting :
          /\ cm_waiting' = cm_waiting \ {w}
          /\ cm_pc' = [cm_pc EXCEPT ![t] = "idle", ![w] = "recv_relock"]
    /\ cm_send' = [cm_send EXCEPT ![t] = Tail(@)]
    /\ UNCHANGED <<cm_queue, cm_lock, cm_recv, cm_got, cm_entered,
                   cm_popped, cm_spurious>>

\* receive: let mut queue = self.queue.lock().unwrap()
CmRecvLock(t) ==
    /\ cm_pc[t] = "idle"
    /\ cm_recv[t] > 0
    /\ cm_lock = 0
    /\ cm_lock' = t
    /\ cm_pc' = [cm_pc EXCEPT ![t] = "recv_pop"]
    /\ UNCHANGED <<cm_queue, cm_waiting, cm_send, cm_recv, cm_got,
                   cm_entered, cm_popped, cm_spurious>>

\* Mutant of CmRecvPop: the front is read but stays in the queue.
CmRecvPop_Peek(t) ==
    /\ cm_pc[t] = "recv_pop"
    /\ IF cm_queue # <<>>
       THEN /\ cm_got' = [cm_got EXCEPT ![t] = Append(@, Head(cm_queue))]
            /\ cm_popped' = Append(cm_popped, Head(cm_queue))
            /\ cm_recv' = [cm_recv EXCEPT ![t] = @ - 1]
            /\ cm_pc' = [cm_pc EXCEPT ![t] = "idle"]
            /\ UNCHANGED <<cm_queue, cm_waiting>>
       ELSE /\ cm_waiting' = cm_waiting \cup {t}
            /\ cm_pc' = [cm_pc EXCEPT ![t] = "recv_wait"]
            /\ UNCHANGED <<cm_queue, cm_got, cm_popped, cm_recv>>
    /\ cm_lock' = 0
    /\ UNCHANGED <<cm_send, cm_entered, cm_spurious>>

\* receive: if let Some(t) = queue.pop_front() { return t } (the guard is
\* dropped) else self.ready.wait(queue), which releases the mutex and
\* blocks.
CmRecvPop(t) ==
    /\ cm_pc[t] = "recv_pop"
    /\ IF cm_queue # <<>>
       THEN /\ cm_got' = [cm_got EXCEPT ![t] = Append(@, Head(cm_queue))]
            /\ cm_popped' = Append(cm_popped, Head(cm_queue))
            /\ cm_queue' = Tail(cm_queue)
            /\ cm_recv' = [cm_recv EXCEPT ![t] = @ - 1]
            /\ cm_pc' = [cm_pc EXCEPT ![t] = "idle"]
            /\ UNCHANGED cm_waiting
       ELSE /\ cm_waiting' = cm_waiting \cup {t}
            /\ cm_pc' = [cm_pc EXCEPT ![t] = "recv_wait"]
            /\ UNCHANGED <<cm_queue, cm_got, cm_popped, cm_recv>>
    /\ cm_lock' = 0
    /\ UNCHANGED <<cm_send, cm_entered, cm_spurious>>

\* wait returns spuriously.
CmRecvSpurious(t) ==
    /\ cm_pc[t] = "recv_wait"
    /\ cm_spurious < MaxSpurious
    /\ cm_spurious' = cm_spurious + 1
    /\ cm_waiting' = cm_waiting \ {t}
    /\ cm_pc' = [cm_pc EXCEPT ![t] = "recv_relock"]
    /\ UNCHANGED <<cm_queue, cm_lock, cm_send, cm_recv, cm_got, cm_entered,
                   cm_popped>>

\* wait locks the mutex again and returns the guard.
CmRecvRelock(t) ==
    /\ cm_pc[t] = "recv_relock"
    /\ cm_lock = 0
    /\ cm_lock' = t
    /\ cm_pc' = [cm_pc EXCEPT ![t] = "recv_pop"]
    /\ UNCHANGED <<cm_queue, cm_waiting, cm_send, cm_recv, cm_got,
                   cm_entered, cm_popped, cm_spurious>>

\* A step of channel_mutex leaves the other parts alone.
OnlyCm ==
    UNCHANGED <<vars, hbVars, onlyVars, mutexVars, condvarVars, oneshotVars,
                slVars, drainVars, gcdVars, bstVars>>

\* A step of thread t other than a spurious return of wait.
CmStep(t) ==
    \/ CmSendLock(t) /\ OnlyCm
    \/ CmSendPush(t) /\ OnlyCm
    \/ CmSendNotify(t) /\ OnlyCm
    \/ CmRecvLock(t) /\ OnlyCm
    \/ CmRecvPop(t) /\ OnlyCm
    \/ CmRecvRelock(t) /\ OnlyCm

CmNext ==
    \/ \E t \in CmThreads : CmSendLock(t) /\ OnlyCm
    \/ \E t \in CmThreads : CmSendPush(t) /\ OnlyCm
    \/ \E t \in CmThreads : CmSendNotify(t) /\ OnlyCm
    \/ \E t \in CmThreads : CmRecvLock(t) /\ OnlyCm
    \/ \E t \in CmThreads : CmRecvPop(t) /\ OnlyCm
    \/ \E t \in CmThreads : CmRecvSpurious(t) /\ OnlyCm
    \/ \E t \in CmThreads : CmRecvRelock(t) /\ OnlyCm

\* The calls of receive: all three in one thread, as in tests::it_works, or
\* shared by two threads.
CmCalls == {[t \in CmReceivers |-> IF t = 3 THEN 3 ELSE 0],
            [t \in CmReceivers |-> IF t = 3 THEN 2 ELSE 1]}

CmTestInit ==
    /\ ArcWeakInit
    /\ HbInit
    /\ OnlyInit
    /\ MutexInit("simple", 0)
    /\ CondvarInit
    /\ OneshotInit("it_works", 7)
    /\ SlInit("v1", 0)
    /\ DrainInit
    /\ GcdInit(0, 0)
    /\ BstInit
    /\ \E calls \in CmCalls : CmInit(calls)

\* Fair scheduling: every thread takes the steps it can take.  Taking the
\* mutex is enabled only while it is free; the runs are finite (no loop
\* but the wait loop, and the spurious returns are bounded), so weak
\* fairness is enough.
CmSpec ==
    /\ CmTestInit
    /\ [][CmNext]_cmVars
    /\ \A t \in CmThreads : WF_cmVars(CmStep(t))

\* ==================================================== Part 7: spin locks
\* spinlock-rs/src/spinlock_v1.rs (lock returns &mut T, unlock is called by
\* hand) and spinlock_v2.rs (lock returns a SpinLockGuard whose drop
\* unlocks), run as in their tests::it_works.

\* Mutant of SlLock: lock returns whatever the swap saw.
SlLock_Unchecked(t) ==
    /\ sl_pc[t] = "lock"
    /\ sl_locked' = TRUE
    /\ sl_pc' = [sl_pc EXCEPT ![t] = "read"]
    /\ UNCHANGED <<sl_version, sl_cell, sl_tmp, sl_todo, sl_main>>

\* lock: while self.locked.swap(true, Acquire) { spin_loop() }; one turn of
\* the loop.
SlLock(t) ==
    /\ sl_pc[t] = "lock"
    /\ sl_locked' = TRUE
    /\ sl_pc' = [sl_pc EXCEPT ![t] = IF sl_locked THEN "lock" ELSE "read"]
    /\ UNCHANGED <<sl_version, sl_cell, sl_tmp, sl_todo, sl_main>>

\* *x += 1: the read of the cell through the reference or the guard.
SlRead(t) ==
    /\ sl_pc[t] = "read"
    /\ sl_tmp' = [sl_tmp EXCEPT ![t] = sl_cell]
    /\ sl_pc' = [sl_pc EXCEPT ![t] = "write"]
    /\ UNCHANGED <<sl_version, sl_locked, sl_cell, sl_todo, sl_main>>

\* *x += 1: the write of the cell.
SlWrite(t) ==
    /\ sl_pc[t] = "write"
    /\ sl_cell' = sl_tmp[t] + 1
    /\ sl_todo' = [sl_todo EXCEPT ![t] = @ - 1]
    /\ sl_pc' = [sl_pc EXCEPT ![t] = "unlock"]
    /\ UNCHANGED <<sl_version, sl_locked, sl_tmp, sl_main>>

\* v1, unlock: self.locked.store(false, Release)
SlUnlock(t) ==
    /\ sl_version = "v1"
    /\ sl_pc[t] = "unlock"
    /\ sl_locked' = FALSE
    /\ sl_pc' = [sl_pc EXCEPT ![t] = IF sl_todo[t] > 0 THEN "lock"
                                     ELSE "done"]
    /\ UNCHANGED <<sl_version, sl_cell, sl_tmp, sl_todo, sl_main>>

\* v2, drop of the SpinLockGuard: self.lock.locked.store(false, Release)
SlGuardDrop(t) ==
    /\ sl_version = "v2"
    /\ sl_pc[t] = "unlock"
    /\ sl_locked' = FALSE
    /\ sl_pc' = [sl_pc EXCEPT ![t] = IF sl_todo[t] > 0 THEN "lock"
                                     ELSE "done"]
    /\ UNCHANGED <<sl_version, sl_cell, sl_tmp, sl_todo, sl_main>>

\* After the scope: assert_eq!(*lock.lock(), n).  v1's reference is never
\* unlocked, v2's guard is dropped at the end of the statement.
SlMainAssert ==
    /\ \A t \in Threads : sl_pc[t] = "done"
    /\ sl_main = "no"
    /\ ~sl_locked
    /\ sl_main' = IF sl_cell = NThreads * Increments THEN "ok" ELSE "failed"
    /\ sl_locked' = (sl_version = "v1")
    /\ UNCHANGED <<sl_version, sl_cell, sl_pc, sl_tmp, sl_todo>>

\* A step of the spin lock test leaves the other parts alone.
OnlySl ==
    UNCHANGED <<vars, hbVars, onlyVars, mutexVars, condvarVars, oneshotVars,
                cmVars, drainVars, gcdVars, bstVars>>

SlNext ==
    \/ \E t \in Threads : SlLock(t) /\ OnlySl
    \/ \E t \in Threads : SlRead(t) /\ OnlySl
    \/ \E t \in Threads : SlWrite(t) /\ OnlySl
    \/ \E t \in Threads : SlUnlock(t) /\ OnlySl
    \/ \E t \in Threads : SlGuardDrop(t) /\ OnlySl
    \/ SlMainAssert /\ OnlySl

SlTestInit ==
    /\ ArcWeakInit
    /\ HbInit
    /\ OnlyInit
    /\ MutexInit("simple", 0)
    /\ CondvarInit
    /\ OneshotInit("it_works", 7)
    /\ CmInit([t \in CmReceivers |-> 0])
    /\ DrainInit
    /\ GcdInit(0, 0)
    /\ BstInit
    /\ \E version \in {"v1", "v2"} : SlInit(version, Increments)

SlSpec == SlTestInit /\ [][SlNext]_slVars

\* ===================================================== Part 8: Vec::drain
\* vec-rs/src/lib.rs: a vector built by push, one call of drain on it, and
\* the Drain iterated from both ends, then dropped or forgotten.  Indices
\* and lengths are usize, of WordBits bits.

\* The elements of the vector, as a slice.
DrVec == SubSeq(dr_buf, 1, dr_len)

\* The value tests::drain pushes at index i (6, 7, 8, 9).
DrValue(i) == 6 + i

\* The bounds a range may have.
DrBounds ==
    {<<kind, n>> : kind \in {"Included", "Excluded"}, n \in Word}
        \cup {<<"Unbounded", 0>>}

\* grow and push: the capacity doubles when the vector is full, the value
\* is written at len.
DrPush ==
    /\ dr_pc = "build"
    /\ dr_len < MaxVecLen
    /\ LET cap == IF dr_cap # dr_len THEN dr_cap
                  ELSE IF dr_cap = 0 THEN 1 ELSE dr_cap * 2
           buf == [i \in 1..cap |-> IF i <= dr_cap THEN dr_buf[i] ELSE 0]
       IN  /\ dr_cap' = cap
           /\ dr_buf' = [buf EXCEPT ![dr_len + 1] = DrValue(dr_len)]
    /\ dr_len' = dr_len + 1
    /\ UNCHANGED <<dr_pc, dr_tail_start, dr_tail_len, dr_beg, dr_end,
                   dr_front, dr_back, dr_orig, dr_lo, dr_hi>>

\* drain's start: Included(start) => start, Excluded(start) =>
\* start.checked_add(1).unwrap(), Unbounded => 0; <<>> when unwrap panics.
DrStart(b) ==
    IF b[1] = "Included" THEN <<b[2]>>
    ELSE IF b[1] = "Unbounded" THEN <<0>>
    ELSE IF b[2] = MAX THEN <<>> ELSE <<b[2] + 1>>

\* drain's end: Included(end) => end.checked_add(1).unwrap(),
\* Excluded(end) => end, Unbounded => self.len.
DrEnd(b) ==
    IF b[1] = "Excluded" THEN <<b[2]>>
    ELSE IF b[1] = "Unbounded" THEN <<dr_len>>
    ELSE IF b[2] = MAX THEN <<>> ELSE <<b[2] + 1>>

\* drain(range): panics when a bound overflows or an assert fails, else
\* cuts len to start and returns the Drain.
DrDrain ==
    /\ dr_pc = "build"
    /\ \E sb \in DrBounds, eb \in DrBounds :
       LET start == DrStart(sb)
           end == DrEnd(eb)
       IN  IF start = <<>> \/ end = <<>>
           THEN /\ dr_pc' = "panicked"
                /\ UNCHANGED <<dr_len, dr_tail_start, dr_tail_len, dr_beg,
                               dr_end, dr_orig, dr_lo, dr_hi>>
           ELSE IF ~(start[1] <= end[1]) \/ ~(end[1] <= dr_len)
           THEN /\ dr_pc' = "panicked"
                /\ UNCHANGED <<dr_len, dr_tail_start, dr_tail_len, dr_beg,
                               dr_end, dr_orig, dr_lo, dr_hi>>
           ELSE /\ dr_pc' = "draining"
                /\ dr_tail_len' = dr_len - end[1]
                /\ dr_len' = start[1]
                /\ dr_tail_start' = end[1]
                /\ dr_beg' = start[1]
                /\ dr_end' = end[1]
                /\ dr_orig' = DrVec
                /\ dr_lo' = start[1]
                /\ dr_hi' = end[1]
    /\ UNCHANGED <<dr_buf, dr_cap, dr_front, dr_back>>

\* Drain::next that returns Some: the cell at beg is read, beg moves on.
DrNext ==
    /\ dr_pc = "draining"
    /\ dr_beg # dr_end
    /\ dr_front' = Append(dr_front, dr_buf[dr_beg + 1])
    /\ dr_beg' = dr_beg + 1
    /\ UNCHANGED <<dr_buf, dr_len, dr_cap, dr_pc, dr_tail_start,
                   dr_tail_len, dr_end, dr_back, dr_orig, dr_lo, dr_hi>>

\* Drain::next_back that returns Some: end moves back, the cell there is
\* read.
DrNextBack ==
    /\ dr_pc = "draining"
    /\ dr_beg # dr_end
    /\ dr_back' = Append(dr_back, dr_buf[dr_end])
    /\ dr_end' = dr_end - 1
    /\ UNCHANGED <<dr_buf, dr_len, dr_cap, dr_pc, dr_tail_start,
                   dr_tail_len, dr_beg, dr_front, dr_orig, dr_lo, dr_hi>>

\* ptr.add(from).copy_to(ptr.add(to), n): a memmove of n cells.
DrCopy(buf, from, to, n) ==
    [i \in 1..Len(buf) |->
        IF to < i /\ i <= to + n THEN buf[i - to + from] ELSE buf[i]]

\* Mutant of DrDrop: the tail is not moved down before len is restored.
DrDrop_NoMove ==
    /\ dr_pc = "draining"
    /\ dr_beg' = dr_end
    /\ dr_len' = IF dr_tail_len > 0 THEN dr_len + dr_tail_len ELSE dr_len
    /\ dr_pc' = "dropped"
    /\ UNCHANGED <<dr_buf, dr_cap, dr_tail_start, dr_tail_len, dr_end,
                   dr_front, dr_back, dr_orig, dr_lo, dr_hi>>

\* Drain::drop: the elements not yet yielded are dropped, the tail is
\* moved down to the start of the drain and len restored.
DrDrop ==
    /\ dr_pc = "draining"
    /\ dr_beg' = dr_end
    /\ IF dr_tail_len > 0
       THEN /\ dr_buf' = IF dr_tail_start > dr_len
                         THEN DrCopy(dr_buf, dr_tail_start, dr_len,
                                     dr_tail_len)
                         ELSE dr_buf
            /\ dr_len' = dr_len + dr_tail_len
       ELSE UNCHANGED <<dr_buf, dr_len>>
    /\ dr_pc' = "dropped"
    /\ UNCHANGED <<dr_cap, dr_tail_start, dr_tail_len, dr_end, dr_front,
                   dr_back, dr_orig, dr_lo, dr_hi>>

\* std::mem::forget(drain): Drain::drop never runs.
DrForget ==
    /\ dr_pc = "draining"
    /\ dr_pc' = "forgotten"
    /\ UNCHANGED <<dr_buf, dr_len, dr_cap, dr_tail_start, dr_tail_len,
                   dr_beg, dr_end, dr_front, dr_back, dr_orig, dr_lo, dr_hi>>

\* A step of the vector leaves the other parts alone.
OnlyDrain ==
    UNCHANGED <<vars, hbVars, onlyVars, mutexVars, condvarVars, oneshotVars,
                cmVars, slVars, gcdVars, bstVars>>

DrainNext ==
    \/ DrPush /\ OnlyDrain
    \/ DrDrain /\ OnlyDrain
    \/ DrNext /\ OnlyDrain
    \/ DrNextBack /\ OnlyDrain
    \/ DrDrop /\ OnlyDrain
    \/ DrForget /\ OnlyDrain

DrainSpec == Init /\ [][DrainNext]_drainVars

\* ============================================================ Part 9: gcd
\* gcd-stein-rs/src/lib.rs: one call of gcd on words of GcdBits bits; the
\* code before the loop is one step and every turn of the loop is one
\* step.
GcdWord == 0..(2^GcdBits - 1)

\* n.trailing_zeros(): the width of the word for 0.
RECURSIVE TrailingZeros(_)
TrailingZeros(n) ==
    IF n = 0 THEN GcdBits
    ELSE IF n % 2 = 1 THEN 0 ELSE 1 + TrailingZeros(n \div 2)

\* n >> k
Shr(n, k) == n \div (2^k)

Min(a, b) == IF a <= b THEN a ELSE b

\* Steps 0 to 2: the early returns, then the 2's are removed from u and v
\* and the common ones remembered.
GcdStart ==
    /\ g_pc = "start"
    /\ IF g_u = 0
       THEN /\ g_ret' = g_v
            /\ g_pc' = "done"
            /\ UNCHANGED <<g_u, g_v, g_twos>>
       ELSE IF g_v = 0
       THEN /\ g_ret' = g_u
            /\ g_pc' = "done"
            /\ UNCHANGED <<g_u, g_v, g_twos>>
       ELSE /\ g_u' = Shr(g_u, TrailingZeros(g_u))
            /\ g_v' = Shr(g_v, TrailingZeros(g_v))
            /\ g_twos' = Min(TrailingZeros(g_u), TrailingZeros(g_v))
            /\ g_pc' = "loop"
            /\ UNCHANGED g_ret
    /\ UNCHANGED <<g_a, g_b, g_underflow, g_overshift>>

\* Mutant of GcdLoop: u and v are not swapped when v < u.
GcdLoop_NoSwap ==
    /\ g_pc = "loop"
    /\ LET d == (g_v - g_u) % (2^GcdBits)
       IN  /\ g_underflow' = (g_underflow \/ g_v < g_u)
           /\ IF d = 0
              THEN /\ g_ret' = (g_u * 2^g_twos) % (2^GcdBits)
                   /\ g_overshift' = (g_overshift \/ g_twos >= GcdBits
                                        \/ g_u * 2^g_twos >= 2^GcdBits)
                   /\ g_v' = d
                   /\ g_pc' = "done"
              ELSE /\ g_v' = Shr(d, TrailingZeros(d))
                   /\ UNCHANGED <<g_ret, g_overshift, g_pc>>
    /\ UNCHANGED <<g_a, g_b, g_u, g_twos>>

\* One turn of the loop, steps 3 to 6: swap if v < u, v -= u, return
\* u << twos_gcd if v == 0, else remove the 2's from v.
GcdLoop ==
    /\ g_pc = "loop"
    /\ LET u == IF g_v < g_u THEN g_v ELSE g_u
           v == IF g_v < g_u THEN g_u ELSE g_v
           d == (v - u) % (2^GcdBits)
       IN  /\ g_u' = u
           /\ g_underflow' = (g_underflow \/ v < u)
           /\ IF d = 0
              THEN /\ g_ret' = (u * 2^g_twos) % (2^GcdBits)
                   /\ g_overshift' = (g_overshift \/ g_twos >= GcdBits
                                        \/ u * 2^g_twos >= 2^GcdBits)
                   /\ g_v' = d
                   /\ g_pc' = "done"
              ELSE /\ g_v' = Shr(d, TrailingZeros(d))
                   /\ UNCHANGED <<g_ret, g_overshift, g_pc>>
    /\ UNCHANGED <<g_a, g_b, g_twos>>

\* A step of gcd leaves the other parts alone.
OnlyGcd ==
    UNCHANGED <<vars, hbVars, onlyVars, mutexVars, condvarVars, oneshotVars,
                cmVars, slVars, drainVars, bstVars>>

GcdNext ==
    \/ GcdStart /\ OnlyGcd
    \/ GcdLoop /\ OnlyGcd

\* A call of gcd with any two arguments.
GcdCallInit ==
    /\ ArcWeakInit
    /\ HbInit
    /\ OnlyInit
    /\ MutexInit("simple", 0)
    /\ CondvarInit
    /\ OneshotInit("it_works", 7)
    /\ CmInit([t \in CmReceivers |-> 0])
    /\ SlInit("v1", 0)
    /\ DrainInit
    /\ BstInit
    /\ \E a \in GcdWord, b \in GcdWord : GcdInit(a, b)

\* The call runs on: a step that can be taken is taken.
GcdSpec == GcdCallInit /\ [][GcdNext]_gcdVars /\ WF_gcdVars(GcdNext)

\* ========================================== Part 10: binary search tree
\* bst-rs/src/lib.rs: a tree built by calls of insert, then iterated by
\* iter_mut.  The boxed nodes are numbered in the order of their creation.
BtNodes == 1..Len(bt_elem)

\* insert's loop from node n: where t goes, as <<"left", node>>,
\* <<"right", node>> or <<"equal", node>>.
RECURSIVE BtDescend(_, _)
BtDescend(n, t) ==
    IF t < bt_elem[n]
    THEN IF bt_left[n] = 0 THEN <<"left", n>> ELSE BtDescend(bt_left[n], t)
    ELSE IF t = bt_elem[n] THEN <<"equal", n>>
    ELSE IF bt_right[n] = 0 THEN <<"right", n>>
    ELSE BtDescend(bt_right[n], t)

\* Box::new(Node::new(t)): the node created next.
BtNew == Len(bt_elem) + 1

\* Mutant of BtInsert: a value equal to a node's goes on to the right.
BtInsert_KeepsEqual(t) ==
    /\ bt_pc = "insert"
    /\ bt_calls < MaxInserts
    /\ bt_calls' = bt_calls + 1
    /\ bt_inserted' = bt_inserted \cup {t}
    /\ bt_elem' = Append(bt_elem, t)
    /\ IF bt_root = 0
       THEN /\ bt_root' = BtNew
            /\ bt_left' = Append(bt_left, 0)
            /\ bt_right' = Append(bt_right, 0)
       ELSE LET at == BtDescend(bt_root, t)
                n == IF at[1] = "equal" THEN BtNew ELSE at[2]
            IN  /\ bt_left' = IF at[1] = "left"
                              THEN Append([bt_left EXCEPT ![n] = BtNew], 0)
                              ELSE Append(bt_left, 0)
                /\ bt_right' = IF at[1] = "right"
                               THEN Append([bt_right EXCEPT ![n] = BtNew], 0)
                               ELSE Append(bt_right, 0)
                /\ UNCHANGED bt_root
    /\ UNCHANGED <<bt_pc, bt_iters, bt_visited>>

\* Tree::insert(t)
BtInsert(t) ==
    /\ bt_pc = "insert"
    /\ bt_calls < MaxInserts
    /\ bt_calls' = bt_calls + 1
    /\ bt_inserted' = bt_inserted \cup {t}
    /\ IF bt_root = 0
       THEN /\ bt_root' = BtNew
            /\ bt_elem' = Append(bt_elem, t)
            /\ bt_left' = Append(bt_left, 0)
            /\ bt_right' = Append(bt_right, 0)
       ELSE LET at == BtDescend(bt_root, t)
            IN  /\ UNCHANGED bt_root
                /\ IF at[1] = "equal"
                   THEN UNCHANGED <<bt_elem, bt_left, bt_right>>
                   ELSE /\ bt_elem' = Append(bt_elem, t)
                        /\ bt_left' =
                             IF at[1] = "left"
                             THEN Append([bt_left EXCEPT ![at[2]] = BtNew], 0)
                             ELSE Append(bt_left, 0)
                        /\ bt_right' =
                             IF at[1] = "right"
                             THEN Append([bt_right EXCEPT ![at[2]] = BtNew],
                                         0)
                             ELSE Append(bt_right, 0)
    /\ UNCHANGED <<bt_pc, bt_iters, bt_visited>>

\* Node::iter_mut: the NodeIterMut of node n.
BtNodeIter(n) ==
    [elem |-> <<bt_elem[n]>>, left |-> bt_left[n], right |-> bt_right[n]]

\* Tree::iter_mut
BtIterMut ==
    /\ bt_pc = "insert"
    /\ bt_iters' = IF bt_root = 0 THEN <<>> ELSE <<BtNodeIter(bt_root)>>
    /\ bt_pc' = "iter"
    /\ UNCHANGED <<bt_root, bt_elem, bt_left, bt_right, bt_visited,
                   bt_inserted, bt_calls>>

\* IterMut::next, one turn of its loop: the front NodeIterMut yields its
\* left node, then its element, then its right node, then None.
BtNextTurn ==
    /\ bt_pc = "iter"
    /\ IF bt_iters = <<>>
       THEN /\ bt_pc' = "done"
            /\ UNCHANGED <<bt_iters, bt_visited>>
       ELSE LET it == Head(bt_iters)
                rest == Tail(bt_iters)
            IN  /\ UNCHANGED bt_pc
                /\ IF it.left # 0
                   THEN /\ bt_iters' = <<BtNodeIter(it.left),
                                         [it EXCEPT !.left = 0]>> \o rest
                        /\ UNCHANGED bt_visited
                   ELSE IF it.elem # <<>>
                   THEN /\ bt_iters' = <<[it EXCEPT !.elem = <<>>]>> \o rest
                        /\ bt_visited' = Append(bt_visited, it.elem[1])
                   ELSE IF it.right # 0
                   THEN /\ bt_iters' = <<BtNodeIter(it.right),
                                         [it EXCEPT !.right = 0]>> \o rest
                        /\ UNCHANGED bt_visited
                   ELSE /\ bt_iters' = rest
                        /\ UNCHANGED bt_visited
    /\ UNCHANGED <<bt_root, bt_elem, bt_left, bt_right, bt_inserted,
                   bt_calls>>

\* A step of the tree leaves the other parts alone.
OnlyBst ==
    UNCHANGED <<vars, hbVars, onlyVars, mutexVars, condvarVars, oneshotVars,
                cmVars, slVars, drainVars, gcdVars>>

BstNext ==
    \/ \E t \in 1..MaxKey : BtInsert(t) /\ OnlyBst
    \/ BtIterMut /\ OnlyBst
    \/ BtNextTurn /\ OnlyBst

BstSpec == Init /\ [][BstNext]_bstVars

\* ============================================================== claims
Labels == {"idle", "clone_abort", "weak_clone_abort", "downgrade", "get_mut_load", "get_mut_store",
           "mut_view", "drop_data", "drop_weak", "upgrade", "free"}

TypeOK ==
    /\ alloc \in {"none", "allocated", "released"}
    /\ data \in Values
    /\ strong_count \in Word
    /\ weak_count \in Word
    /\ arcs \in [Threads -> Nat]
    /\ weaks \in [Threads -> Nat]
    /\ pc \in [Threads -> Labels]
    /\ seen \in [Threads -> Word]
    /\ ret \in [Threads -> {NoRet, RetSome, RetNone} \cup {RetVal(v) : v \in Values}]

\* Threads that are at a given place.
ThreadsAt(label) == {t \in Threads : pc[t] = label}

\* C1: the payload destructor runs at most once and never while a strong
\* handle exists: a thread is about to run it (it observed strong_count = 1
\* in Arc::drop) only when no strong handle is left and the counter is 0,
\* at most one thread ever is, and none once it has run.
C1_PayloadDestroyedOnce ==
    /\ DROP_COUNT <= 1
    /\ Cardinality(ThreadsAt("drop_data")) + DROP_COUNT <= 1
    /\ (DROP_COUNT = 1 \/ ThreadsAt("drop_data") # {}) =>
          (NumStrong = 0 /\ strong_count = 0)
    /\ (alloc = "none") => (DROP_COUNT = 0 /\ ThreadsAt("drop_data") = {})

\* C1 witness: the destructor has just run in the last Arc::drop while
\* weak handles remain.
C1_Witness ==
    /\ DROP_COUNT = 1
    /\ ThreadsAt("drop_weak") # {}
    /\ NumWeak > 0
    /\ ~aborted

\* C2: the allocation record is released at most once, only by the drop
\* that took weak_count from 1 to 0, and only after the payload was
\* destroyed.
C2_RecordReleasedOnce ==
    /\ free_count <= 1
    /\ Cardinality(ThreadsAt("free")) + free_count <= 1
    /\ (alloc = "released") <=> (free_count = 1)
    /\ (free_count = 1 \/ ThreadsAt("free") # {}) =>
          /\ weak_count = 0
          /\ DROP_COUNT = 1
          /\ NumWeak = 0
          /\ NumStrong = 0

\* C2 witness: the record has been released after the payload was destroyed.
C2_Witness == free_count = 1 /\ DROP_COUNT = 1 /\ alloc = "released"

\* C3: Weak::upgrade never returns Some after the payload has been
\* destroyed: at the step where an upgrade returns Some the destructor has
\* not run and no thread is about to run it, before and after the step,
\* and the step leaves strong_count >= 2, so the next drop is not final.
UpgradeReturnsSome(t) ==
    pc[t] = "upgrade" /\ pc'[t] = "idle" /\ arcs'[t] = arcs[t] + 1

C3_UpgradeStep ==
    \A t \in Threads :
        UpgradeReturnsSome(t) =>
            /\ DROP_COUNT = 0 /\ DROP_COUNT' = 0
            /\ ThreadsAt("drop_data") = {}
            /\ \A u \in Threads : pc'[u] # "drop_data"
            /\ strong_count >= 1
            /\ strong_count' >= 2
            /\ alloc = "allocated"
            /\ ~uaf'

C3_UpgradeNeverAfterDestroy == [][C3_UpgradeStep]_vars

\* C3 witness: an upgrade read strong_count = 1, the last strong handle was
\* dropped and the payload destroyed before the compare-exchange.
C3_Witness ==
    \E t \in Threads :
        pc[t] = "upgrade" /\ seen[t] = 1 /\ DROP_COUNT = 1 /\ ~aborted

\* C4: while a mutable view returned by get_mut is live there is exactly
\* one strong handle (its own) and no weak handle, strong_count = 1 and
\* weak_count = 1, and every other thread is outside every operation.
C4_ExclusiveView ==
    \A t \in Threads :
        pc[t] = "mut_view" =>
            /\ arcs[t] = 1
            /\ NumStrong = 1
            /\ NumWeak = 0
            /\ strong_count = 1
            /\ weak_count = 1
            /\ DROP_COUNT = 0
            /\ alloc = "allocated"
            /\ \A u \in Threads \ {t} : pc[u] = "idle"

\* C4 witness: a view is live and a value has been written through it
\* after another thread used the allocation.
C4_Witness ==
    \E t \in Threads :
        /\ pc[t] = "mut_view"
        /\ data = 9
        /\ \E u \in Threads \ {t} : ret[u] = RetVal(7)

\* Exactly one strong handle and no weak handle exist.
Sole == NumStrong = 1 /\ NumWeak = 0

\* C5: get_mut returns Some if and only if exactly one strong handle and no
\* weak handle exist at the instant of its check.  The check is the atomic
\* step that decides: the compare-exchange on weak_count when it fails
\* (None), the load of strong_count otherwise (Some iff it reads 1).
C5_CasFailsOnlyIfShared ==
    \A t \in Threads :
        (pc[t] = "idle" /\ arcs[t] > 0 /\ weak_count # 1) => ~Sole

C5_GetMutStep ==
    \A t \in Threads :
        /\ (pc[t] = "idle" /\ pc'[t] = "idle" /\ ret'[t] = RetNone
              /\ ret[t] # RetNone) => ~Sole
        /\ (pc[t] = "get_mut_load" /\ pc'[t] = "get_mut_store") =>
              (is_single'[t] <=> Sole)
        /\ (pc[t] = "get_mut_store" /\ pc'[t] # "get_mut_store") =>
              IF is_single[t]
              THEN pc'[t] = "mut_view" /\ ret'[t] = RetSome
              ELSE pc'[t] = "idle" /\ ret'[t] = RetNone
        /\ (pc[t] # "mut_view" /\ pc'[t] = "mut_view") =>
              pc[t] = "get_mut_store"

Quiescent ==
    /\ alloc # "none"
    /\ NumStrong = 0
    /\ NumWeak = 0
    /\ \A t \in Threads : pc[t] = "idle"

\* C6: once every strong and weak handle has been dropped, the payload
\* destructor has run exactly once, the record has been released exactly
\* once and both counters are 0.
C6_NothingLeaks ==
    Quiescent =>
        /\ DROP_COUNT = 1
        /\ free_count = 1
        /\ alloc = "released"
        /\ strong_count = 0
        /\ weak_count = 0
        /\ ~uaf

\* C6 witness: all handles are gone after a run in which an upgrade or a
\* get_mut succeeded.
C6_Witness == Quiescent /\ \E t \in Threads : ret[t] = RetSome

\* C7: upgrade returns Some exactly when its compare-exchange succeeds on a
\* nonzero strong_count, which it has then incremented by exactly 1; it
\* returns None exactly when it observed 0, and has then changed neither
\* counter; a failed compare-exchange changes no counter either.
C7_UpgradeStep ==
    \A t \in Threads :
        pc[t] = "upgrade" =>
            /\ (pc'[t] = "idle") =>
                IF seen[t] = 0
                THEN /\ ret'[t] = RetNone
                     /\ strong_count' = strong_count
                     /\ weak_count' = weak_count
                     /\ arcs' = arcs
                ELSE /\ ret'[t] = RetSome
                     /\ strong_count = seen[t]
                     /\ strong_count' = strong_count + 1
                     /\ weak_count' = weak_count
                     /\ arcs'[t] = arcs[t] + 1
            /\ (pc'[t] = "upgrade" /\ seen'[t] # seen[t]) =>
                /\ seen'[t] = strong_count
                /\ strong_count' = strong_count
                /\ weak_count' = weak_count
                /\ arcs' = arcs

C7_UpgradeResult == [][C7_UpgradeStep]_vars

\* C7 witness: a thread that still owns a weak handle owns the strong
\* handle its upgrade returned, and another upgrade has returned None.
C7_Witness ==
    \E t \in Threads, u \in Threads :
        /\ pc[t] = "idle" /\ ret[t] = RetSome /\ weaks[t] > 0
        /\ pc[u] = "idle" /\ ret[u] = RetNone /\ weaks[u] > 0
        /\ DROP_COUNT = 1

\* Thread t owns the only handle, and every other thread has finished its
\* drops.
Quiet(t) ==
    /\ ~aborted
    /\ alloc # "none"
    /\ arcs[t] = 1
    /\ \A u \in Threads \ {t} : pc[u] = "idle"
    /\ Sole

RetVals == {RetVal(v) : v \in Values}

\* C8: once every other handle has been dropped, get_mut on the remaining
\* strong handle returns Some (its compare-exchange finds 1, its load reads
\* 1, it returns the view), and the payload read by a dereference is the
\* value last written: while a thread owns a strong handle the payload
\* changes only by that thread's own write through its view.
C8_QuietCounters ==
    \A t \in Threads :
        (pc[t] = "idle" /\ Quiet(t)) =>
            (weak_count = 1 /\ strong_count = 1 /\ alloc = "allocated"
               /\ DROP_COUNT = 0)

C8_Step ==
    \A t \in Threads :
        /\ (pc[t] = "idle" /\ pc'[t] = "get_mut_load" /\ Quiet(t)) =>
              Quiet(t)'
        /\ (pc[t] = "get_mut_load" /\ pc'[t] = "get_mut_store" /\ Quiet(t)) =>
              (is_single'[t] /\ Quiet(t)')
        /\ (pc[t] = "get_mut_store" /\ is_single[t]
              /\ pc'[t] # "get_mut_store") =>
              (pc'[t] = "mut_view" /\ ret'[t] = RetSome)
        /\ (arcs[t] > 0 /\ arcs'[t] > 0 /\ data' # data) =>
              pc[t] = "mut_view"
        /\ (pc[t] = "idle" /\ pc'[t] = "idle" /\ ret'[t] # ret[t]
              /\ ret'[t] \in RetVals) =>
              (ret'[t] = RetVal(data) /\ data' = data)

StrongGone ==
    /\ alloc # "none"
    /\ NumStrong = 0
    /\ ThreadsAt("drop_data") = {}
    /\ ThreadsAt("drop_weak") = {}

\* C9: after the last strong handle is dropped while a weak handle remains
\* the payload is destroyed, every upgrade returns None, the record stays
\* allocated as long as a weak handle exists, and the drop of the last weak
\* handle releases it.
C9_AfterLastStrong ==
    /\ (alloc # "none" /\ NumWeak >= 1) => alloc = "allocated"
    /\ (StrongGone /\ NumWeak >= 1) =>
          /\ DROP_COUNT = 1
          /\ strong_count = 0
          /\ free_count = 0
          /\ ThreadsAt("free") = {}

C9_Step ==
    \A t \in Threads :
        /\ (pc[t] = "upgrade" /\ pc'[t] = "idle" /\ StrongGone) =>
              (ret'[t] = RetNone /\ arcs' = arcs /\ strong_count' = 0)
        /\ (weaks[t] = 1 /\ NumWeak = 1 /\ NumWeak' = 0 /\ StrongGone) =>
              pc'[t] = "free"
        /\ (pc[t] = "free" /\ pc'[t] # "free") =>
              (alloc = "allocated" /\ alloc' = "released")

C9_WeakOutlivesStrong == [](C9_AfterLastStrong) /\ [][C9_Step]_vars

\* C9 witness: the strong handles are gone, the payload is destroyed, and a
\* thread that still owns a weak handle has got None from upgrade.
C9_Witness ==
    \E t \in Threads :
        /\ StrongGone
        /\ DROP_COUNT = 1
        /\ pc[t] = "idle"
        /\ weaks[t] >= 1
        /\ ret[t] = RetNone
        /\ alloc = "allocated"

\* C10 as stated: in every reachable state strong_count equals the number
\* of live strong handles.
C10_StrongCountIsHandles ==
    alloc = "allocated" => strong_count = NumStrong

\* C10 amended: strong_count equals the number of live strong handles plus
\* the number of Arc::clone calls that have incremented it, found the value
\* before the increment above MAX / 2 and are about to abort the process.
C10_StrongCountIsHandlesOrAborting ==
    alloc = "allocated" =>
        strong_count = NumStrong + Cardinality(ThreadsAt("clone_abort"))

\* C10 witness: three strong handles from Arc::new, Arc::clone and a
\* successful upgrade, with strong_count = 3.
C10_Witness ==
    /\ alloc = "allocated"
    /\ ~aborted
    /\ NumStrong = 3
    /\ strong_count = 3
    /\ ThreadsAt("clone_abort") = {}
    /\ \E t \in Threads : ret[t] = RetSome /\ weaks[t] > 0 /\ arcs[t] > 0

\* The unit of weak_count that stands for all strong handles: held while a
\* strong handle exists and until the last Arc::drop, having destroyed the
\* payload, has done its fetch_sub on weak_count.
UnitHeld ==
    \/ NumStrong > 0
    \/ ThreadsAt("drop_data") # {}
    \/ ThreadsAt("drop_weak") # {}

ArcsUnit == IF UnitHeld THEN 1 ELSE 0

\* C11 as stated: whenever weak_count is not the sentinel it equals the
\* number of live weak handles, plus one while the unit of the strong
\* handles is held.
C11_WeakCountIsHandles ==
    (alloc = "allocated" /\ weak_count # MAX) =>
        weak_count = NumWeak + ArcsUnit

\* C11 amended: ... plus the number of Weak::clone calls that have
\* incremented weak_count, found the value before the increment above
\* MAX / 2 and are about to abort the process.
C11_WeakCountIsHandlesOrAborting ==
    (alloc = "allocated" /\ weak_count # MAX) =>
        weak_count = NumWeak + ArcsUnit
                       + Cardinality(ThreadsAt("weak_clone_abort"))

\* C11 witness: two weak handles and a strong one, weak_count = 3; and
\* the sentinel case is excluded, not vacuous.
C11_Witness ==
    /\ alloc = "allocated"
    /\ ~aborted
    /\ NumWeak = 2
    /\ NumStrong >= 1
    /\ weak_count = 3
    /\ ThreadsAt("weak_clone_abort") = {}

\* C12: while a strong handle exists strong_count >= 1 and
\* weak_count >= 1; while a weak handle exists weak_count >= 1.
C12_CountersPositive ==
    /\ NumStrong > 0 => (strong_count >= 1 /\ weak_count >= 1)
    /\ NumWeak > 0 => weak_count >= 1

\* C12 witness: the only handles left are weak ones, strong_count is 0 and
\* weak_count is still positive.
C12_Witness ==
    /\ NumStrong = 0
    /\ NumWeak > 0
    /\ strong_count = 0
    /\ weak_count >= 1
    /\ DROP_COUNT = 1

\* The step of thread t is the fetch_add of Arc::clone.
IsArcCloneStep(t) ==
    /\ pc[t] = "idle"
    /\ strong_count' = WrapAdd(strong_count)
    /\ \/ pc'[t] = "clone_abort"
       \/ arcs'[t] = arcs[t] + 1

\* The step of thread t is the fetch_add of Weak::clone.
IsWeakCloneStep(t) ==
    /\ pc[t] = "idle"
    /\ weak_count' = WrapAdd(weak_count)
    /\ \/ pc'[t] = "weak_clone_abort"
       \/ weaks'[t] = weaks[t] + 1

\* Thread t is inside the loop of downgrade or upgrade and takes a step
\* other than abort().
LoopStep(t) == seen'[t] # seen[t] \/ pc'[t] # pc[t]

\* Thread t is where the code calls abort(), if every observed value above
\* MAX / 2 leads there.
AbortsAboveHalf(t) ==
    \/ pc[t] \in {"clone_abort", "weak_clone_abort"}
    \/ pc[t] \in {"downgrade", "upgrade"} /\ seen[t] > HalfMax

\* Thread t is where the code calls abort(): downgrade tests the sentinel
\* first and spins on it.
AbortsAboveHalfNotSentinel(t) ==
    \/ pc[t] \in {"clone_abort", "weak_clone_abort"}
    \/ pc[t] = "upgrade" /\ seen[t] > HalfMax
    \/ pc[t] = "downgrade" /\ seen[t] > HalfMax /\ seen[t] # MAX

C13_StepOriginal ==
    /\ ~aborted
    /\ aborted' => \E t \in Threads : AbortsAboveHalf(t)
    /\ \A t \in Threads :
        /\ IsArcCloneStep(t) =>
              (pc'[t] = "clone_abort" <=> strong_count > HalfMax)
        /\ IsWeakCloneStep(t) =>
              (pc'[t] = "weak_clone_abort" <=> weak_count > HalfMax)
        /\ AbortsAboveHalf(t) => ~LoopStep(t)

C13_Step ==
    /\ ~aborted
    /\ aborted' => \E t \in Threads : AbortsAboveHalfNotSentinel(t)
    /\ \A t \in Threads :
        /\ IsArcCloneStep(t) =>
              (pc'[t] = "clone_abort" <=> strong_count > HalfMax)
        /\ IsWeakCloneStep(t) =>
              (pc'[t] = "weak_clone_abort" <=> weak_count > HalfMax)
        /\ AbortsAboveHalfNotSentinel(t) => ~LoopStep(t)

\* C13 as stated: Arc::clone, Weak::clone, downgrade and upgrade abort
\* exactly when the counter value they observed exceeds MAX / 2: a call
\* that observed such a value takes no step but abort(), a call that
\* observed a smaller one does not abort, and nothing happens after abort.
C13_AbortIffAboveHalf == [][C13_StepOriginal]_vars

\* C13 amended: ... except that downgrade, observing the sentinel MAX
\* (which exceeds MAX / 2), does not abort but reads weak_count again.
C13_AbortIffAboveHalfNotSentinel == [][C13_Step]_vars

\* C13 witness: the process has aborted, and the only call that can have
\* done it is a downgrade that observed a value above MAX / 2 other than
\* the sentinel.
C13_Witness ==
    /\ aborted
    /\ \E t \in Threads :
        pc[t] = "downgrade" /\ seen[t] > HalfMax /\ seen[t] # MAX
    /\ \A t \in Threads : pc[t] \notin {"clone_abort", "weak_clone_abort",
                                        "upgrade"}

\* The spin loop of downgrade reads weak_count while the lock is released.
DowngradeSeesUnlocked(t) == DowngradeSpin(t) /\ seen'[t] # MAX

\* The compare-exchange of downgrade succeeds.
DowngradeReturns(t) == DowngradeCas(t) /\ pc'[t] = "idle"

\* Every downgrade that has begun ends: it returns or the process aborts.
DowngradeEnds ==
    \A t \in Threads :
        (pc[t] = "downgrade") ~> (pc[t] # "downgrade" \/ aborted)

\* C14 as stated, read in its favour (abort counts as an end of the call,
\* and from some point on no weak handle exists, so that only the get_mut
\* calls of other strong handles change weak_count): under fair scheduling
\* every call to Arc::downgrade eventually returns.
C14_DowngradeReturns == (<>[](NumWeak = 0)) => DowngradeEnds

\* C14 amended: every call to Arc::downgrade eventually returns or the
\* process aborts if, in addition, a read of weak_count that could see the
\* lock released infinitely often eventually does, and a compare-exchange
\* that could succeed infinitely often eventually does.
C14_DowngradeReturnsIfNotOvertaken ==
    (\A t \in Threads : /\ SF_vars(DowngradeSeesUnlocked(t))
                        /\ SF_vars(DowngradeReturns(t)))
        => DowngradeEnds

\* C14 witness: a downgrade has observed the sentinel and the get_mut that
\* held the lock has restored weak_count and returned None.
C14_Witness ==
    /\ ~aborted
    /\ weak_count = 1
    /\ \E t \in Threads : pc[t] = "downgrade" /\ seen[t] = MAX
    /\ \E u \in Threads : pc[u] = "idle" /\ ret[u] = RetNone

\* The number of atomic steps an operation has taken when its thread is at
\* the label.
StepsTaken ==
    [l \in Labels |->
        CASE l = "idle" -> 0
          [] l \in {"clone_abort", "weak_clone_abort", "downgrade", "upgrade",
                    "get_mut_load", "drop_data"} -> 1
          [] l \in {"get_mut_store", "drop_weak"} -> 2
          [] l \in {"mut_view", "free"} -> 3]

\* Thread t does not go back inside an operation: it leaves a label for a
\* later one or for the end of the operation.
Forward(t) ==
    (pc[t] # "idle" /\ pc'[t] # pc[t]) =>
        \/ pc'[t] = "idle"
        \/ StepsTaken[pc'[t]] > StepsTaken[pc[t]]

\* Thread t goes round the loop of downgrade or upgrade once more, with a
\* new value of the counter.
Retry(t) ==
    /\ pc[t] \in {"downgrade", "upgrade"}
    /\ pc'[t] = pc[t]
    /\ seen'[t] # seen[t]

\* The retry of thread t has a cause in another thread: the counter is
\* not what t read before, and t now holds its current value.
RetryCause(t) ==
    /\ UNCHANGED <<strong_count, weak_count>>
    /\ pc[t] = "downgrade" =>
          (seen[t] # weak_count /\ seen'[t] = weak_count)
    /\ pc[t] = "upgrade" =>
          (seen[t] # strong_count /\ seen'[t] = strong_count)

\* C15 as stated: no operation retries, each goes forward from step to
\* step and so ends after a bounded number of its own steps.
C15_NoRetry ==
    [][\A t \in Threads : Forward(t) /\ ~Retry(t)]_vars

\* C15 amended: every operation goes forward from step to step, at most
\* four steps, except that downgrade and upgrade go round their loop again
\* whenever the counter is no longer the value they read (another thread
\* changed it, or it was the sentinel for downgrade).
C15_RetryOnlyInCasLoops ==
    [][\A t \in Threads : Forward(t) /\ (Retry(t) => RetryCause(t))]_vars

\* C15 witness: a downgrade holds a value of weak_count that another
\* thread has changed since, so its compare-exchange is going to fail.
C15_Witness ==
    /\ ~aborted
    /\ alloc = "allocated"
    /\ \E t \in Threads :
        /\ pc[t] = "downgrade"
        /\ seen[t] <= HalfMax
        /\ seen[t] # weak_count
        /\ weak_count # MAX

\* The payload is what it was: same value, not destroyed.
PayloadUnchanged == UNCHANGED <<data, DROP_COUNT>>

\* The step is thread t's Arc::clone: t gets one more strong handle (or is
\* about to abort) out of an operation that began and ended in this step.
ClonedArc(t) ==
    /\ pc[t] = "idle"
    /\ alloc = "allocated"
    /\ \/ pc'[t] = "clone_abort"
       \/ /\ arcs'[t] = arcs[t] + 1
          /\ \A u \in Threads \ {t} : arcs'[u] = arcs[u]

\* The step is thread t's Weak::clone.
ClonedWeak(t) ==
    /\ pc[t] = "idle"
    /\ \/ pc'[t] = "weak_clone_abort"
       \/ /\ weaks'[t] = weaks[t] + 1
          /\ \A u \in Threads \ {t} : weaks'[u] = weaks[u]

\* The step is the one in which thread t's downgrade returns.
Downgraded(t) == pc[t] = "downgrade" /\ pc'[t] = "idle"

\* The step is one of thread t's downgrade that does not return: the
\* first load, a spin, or a failed compare-exchange.
DowngradeTries(t) ==
    \/ pc[t] = "idle" /\ pc'[t] = "downgrade"
    \/ pc[t] = "downgrade" /\ pc'[t] = "downgrade" /\ seen'[t] # seen[t]

C16_Step ==
    \A t \in Threads :
        /\ ClonedArc(t) =>
            /\ strong_count' = strong_count + 1
            /\ weak_count' = weak_count
            /\ PayloadUnchanged
        /\ ClonedWeak(t) =>
            /\ weak_count' = weak_count + 1
            /\ strong_count' = strong_count
            /\ PayloadUnchanged
        /\ Downgraded(t) =>
            /\ weak_count' = weak_count + 1
            /\ weaks'[t] = weaks[t] + 1
            /\ strong_count' = strong_count
            /\ PayloadUnchanged
        /\ DowngradeTries(t) =>
            /\ UNCHANGED <<strong_count, weak_count>>
            /\ PayloadUnchanged

\* C16: Arc::clone adds exactly 1 to strong_count and leaves weak_count
\* alone; Arc::downgrade and Weak::clone add exactly 1 to weak_count and
\* leave strong_count alone; none of them changes the payload.
C16_CloneAndDowngradeFrame == [][C16_Step]_vars

\* C16 witness: after a clone, a downgrade and a Weak::clone the counters
\* are 2 and 3 and the payload is as it was constructed.
C16_Witness ==
    /\ ~aborted
    /\ NumStrong = 2
    /\ NumWeak = 2
    /\ strong_count = 2
    /\ weak_count = 3
    /\ DROP_COUNT = 0
    /\ \A t \in Threads : pc[t] = "idle"

\* ------------------------------------------------------------- arc_only
OnlyThreadsAt(label) == {t \in Threads : only_pc[t] = label}

C18_State ==
    /\ only_DROP_COUNT + Cardinality(OnlyThreadsAt("drop_box")) <= 1
    /\ (only_DROP_COUNT = 1) <=> (only_alloc = "released")
    /\ (only_DROP_COUNT = 1 \/ OnlyThreadsAt("drop_box") # {}) =>
            (NumOnly = 0 /\ count = 0)
    /\ (only_alloc = "allocated" /\ NumOnly = 0) =>
            OnlyThreadsAt("drop_box") # {}
    /\ ~only_uaf

C18_Step ==
    \A t \in Threads :
        (only_pc[t] # "drop_box" /\ only_pc'[t] = "drop_box") =>
            (count = 1 /\ count' = 0 /\ only_arcs'[t] = only_arcs[t] - 1)

MutexGuards == {t \in Threads : guard[t]}

\* C19: for mutex_simple and mutex_spin alike, at most one MutexGuard of
\* the mutex exists at any time, and no increment made under the guard is
\* lost: the value and the increments still to make add up to T * N, so T
\* threads that have made N increments each leave T * N.
C19_OneGuardNoLostUpdate ==
    /\ Cardinality(MutexGuards) <= 1
    /\ \A t \in Threads : guard[t] => state # 0
    /\ \A t \in Threads : mpc[t] \in {"read", "write"} => guard[t]
    /\ value + SumTo(todo, NThreads) = NThreads * Increments
    /\ (\A t \in Threads : mpc[t] = "done") => value = NThreads * Increments

\* C19 witness: a thread is between the read and the write of its
\* increment, under the guard of mutex_spin, while another thread sleeps
\* in futex::wait; and increments have been made before.
C19_Witness ==
    \E t \in Threads, u \in Threads :
        /\ variant = "spin"
        /\ guard[t]
        /\ mpc[t] = "write"
        /\ mpc[u] = "spin_asleep"
        /\ value >= 1

\* -------------------------------------------------------------- condvar
\* Condvar::wait has returned to the consumer: it holds the mutex again
\* and the change of the producer is there to see.
WaitReturned ==
    /\ mpc[Consumer] = "c_woke"
    /\ guard[Consumer]
    /\ resource > 0

\* A producer has changed the shared state under the mutex (and calls
\* notify_one afterwards) while the consumer, which tested the state under
\* the same mutex, is in wait.
ChangedDuringWait == InWait(Consumer) /\ resource > 0

\* C20: Condvar::wait and notify_one never lose a wake-up: if a producer
\* changes the shared state while holding the mutex and afterwards calls
\* notify_one, a consumer that tested the state under the same mutex and
\* called wait does not sleep forever; it eventually returns from wait
\* holding the mutex again and sees the change.
C20_NoLostWakeup == ChangedDuringWait ~> WaitReturned

\* The counter never comes back to the value wait loaded: fewer than
\* 2^CounterBits fetch_adds fall between the load and the futex::wait call
\* of any one wait.
NoCounterWrap == \A t \in Threads : since[t] < CounterWrap

\* Without a wrap of the counter no wake-up is lost.
NoLostWakeupUnlessWrap == ([]NoCounterWrap) => C20_NoLostWakeup

\* ------------------------------------------------------ oneshot channel
\* receive has returned a value.
ReceiveReturned == os_ret # NoRet

\* C21: for one send(v) and one receive() on the same channel, in every
\* arrival order (send first, receive first and parked, or a race on the
\* state word), receive() eventually returns, what it returns is exactly
\* v, and the state word is EMPTY from then on.
C21_ReceiveReturnsSent ==
    /\ [](ReceiveReturned => os_ret = RetVal(os_sent) /\ os_state = EMPTY)
    /\ <>ReceiveReturned

\* C21 witness: the receiver was first and has taken the value in the
\* window between the sender's store of DATA_READY and its unpark.
C21_Witness ==
    /\ os_ret = RetVal(os_sent)
    /\ os_state = EMPTY
    /\ os_pc.tx = "send_unpark"
    /\ os_pc.rx = "done"

\* ---------------------------------------------- mutex-and-condvar channel
Range(q) == {q[i] : i \in 1..Len(q)}

\* q is p with some elements left out.
RECURSIVE IsSubseq(_, _)
IsSubseq(q, p) ==
    IF q = <<>> THEN TRUE
    ELSE IF p = <<>> THEN FALSE
    ELSE IF Head(q) = Head(p) THEN IsSubseq(Tail(q), Tail(p))
    ELSE IsSubseq(q, Tail(p))

RECURSIVE CmReturned(_)
CmReturned(S) ==
    IF S = {} THEN 0
    ELSE LET t == CHOOSE x \in S : TRUE
         IN  Len(cm_got[t]) + CmReturned(S \ {t})

\* The values the senders of the test pass to send.
CmSent == UNION {Range(CmProgram[t]) : t \in CmSenders}

\* The values pushed are the values popped followed by the queue, each
\* value popped was returned by one receive call, and every thread got its
\* values in the order they entered the queue.
CmNoneLostNoneDuplicated ==
    /\ cm_entered = cm_popped \o cm_queue
    /\ CmReturned(CmReceivers) = Len(cm_popped)
    /\ UNION {Range(cm_got[t]) : t \in CmReceivers} = Range(cm_popped)
    /\ \A t \in CmReceivers : IsSubseq(cm_got[t], cm_entered)

\* A receive call that returns takes the front of a queue that is not
\* empty.
CmReturnsFront ==
    \A t \in CmThreads :
        cm_got'[t] # cm_got[t] =>
            /\ cm_queue # <<>>
            /\ cm_got'[t] = Append(cm_got[t], Head(cm_queue))
            /\ cm_queue' = Tail(cm_queue)

\* Every receive call has returned and every value sent was returned.
CmAllReturned ==
    /\ \A t \in CmThreads : cm_pc[t] = "idle" /\ cm_recv[t] = 0
    /\ Range(cm_popped) = CmSent
    /\ Len(cm_popped) = Cardinality(CmSent)

\* C22: over every interleaving of send and receive by several threads,
\* every value passed to send is returned by exactly one receive call (none
\* lost, none duplicated), the values are returned in the order they
\* entered the queue, and receive never returns while the queue is empty
\* but blocks until a value is sent.
C22_ChannelDelivers ==
    /\ []CmNoneLostNoneDuplicated
    /\ [][CmReturnsFront]_cmVars
    /\ <>CmAllReturned

\* C22 witness: a receiver that found the queue empty and blocked has been
\* chosen by a notify_one, while another receiver has already returned a
\* value and a value is in the queue.
C22_Witness ==
    /\ cm_pc[3] = "recv_relock"
    /\ cm_spurious = 0
    /\ cm_queue # <<>>
    /\ cm_got[4] # <<>>

\* ------------------------------------------------------------ spin locks
\* The threads between lock and unlock.
SlHolders == {t \in Threads : sl_pc[t] \in {"read", "write", "unlock"}}

\* At most one thread is between lock and unlock, the lock is then taken,
\* and no increment is lost.
SlExclusive ==
    /\ Cardinality(SlHolders) <= 1
    /\ SlHolders # {} => sl_locked
    /\ sl_cell + SumTo(sl_todo, NThreads) = NThreads * Increments
    /\ sl_main # "failed"

\* lock returns only in the step that changes locked from false to true.
SlLockReturns ==
    \A t \in Threads :
        sl_pc[t] = "lock" /\ sl_pc'[t] = "read" =>
            ~sl_locked /\ sl_locked'

\* C23: SpinLock (v1 with explicit unlock, v2 with a guard): lock() returns
\* only after it atomically changed locked from false to true, so at most
\* one thread is between lock and unlock at any time and the increments
\* made under the lock by different threads are all kept.
C23_SpinLockExcludes == []SlExclusive /\ [][SlLockReturns]_slVars

\* C23 witness: under v2 a thread is between the read and the write of its
\* increment while another spins in lock, after an earlier increment.
C23_Witness ==
    \E t \in Threads, u \in Threads :
        /\ sl_version = "v2"
        /\ sl_pc[t] = "write"
        /\ sl_pc[u] = "lock"
        /\ sl_cell >= 1
        /\ sl_locked

\* ------------------------------------------------------------ Vec::drain
RECURSIVE Reverse(_)
Reverse(q) == IF q = <<>> THEN <<>> ELSE Append(Reverse(Tail(q)), Head(q))

\* The elements of the drained range, [start, end) of the vector as it
\* was.
DrRange == SubSeq(dr_orig, dr_lo + 1, dr_hi)

\* C24: Vec::drain(range) with start <= end <= len yields exactly the
\* elements at the indices [start, end), in order (what next returned, the
\* elements not yet yielded, and what next_back returned from the back
\* make up the range; a Drain iterated by next to its end has yielded the
\* range); after the Drain is dropped, fully iterated or not, the vector
\* holds the elements before start followed by the elements from end on,
\* in their original order, with len reduced by end - start; if the Drain
\* is leaked with mem::forget the vector holds only the elements before
\* start.
C24_DrainYieldsAndCloses ==
    /\ dr_pc = "draining" =>
          /\ dr_lo <= dr_hi /\ dr_hi <= Len(dr_orig)
          /\ dr_front \o SubSeq(dr_buf, dr_beg + 1, dr_end)
                \o Reverse(dr_back) = DrRange
          /\ (dr_beg = dr_end /\ dr_back = <<>>) => dr_front = DrRange
    /\ dr_pc = "dropped" =>
          /\ DrVec = SubSeq(dr_orig, 1, dr_lo)
                        \o SubSeq(dr_orig, dr_hi + 1, Len(dr_orig))
          /\ dr_len = Len(dr_orig) - (dr_hi - dr_lo)
    /\ dr_pc = "forgotten" => DrVec = SubSeq(dr_orig, 1, dr_lo)

\* C24 witness: a Drain over an inner range, with elements before and
\* after it, was dropped before it was iterated to its end.
C24_Witness ==
    /\ dr_pc = "dropped"
    /\ 0 < dr_lo
    /\ dr_lo + 1 < dr_hi
    /\ dr_hi < Len(dr_orig)
    /\ dr_front # <<>>
    /\ Len(dr_front) + Len(dr_back) < dr_hi - dr_lo

\* -------------------------------------------------------------------- gcd
Divides(d, n) == n % d = 0

\* The greatest common divisor, by its definition; 0 for 0 and 0.
GCD(a, b) ==
    IF a = 0 /\ b = 0 THEN 0
    ELSE LET m == IF a >= b THEN a ELSE b
             common == {d \in 1..m : Divides(d, a) /\ Divides(d, b)}
         IN  CHOOSE d \in common : \A e \in common : e <= d

\* C25: gcd(u, v) terminates for all unsigned inputs and returns the
\* greatest common divisor of u and v, with gcd(u, 0) = gcd(0, u) = u (so
\* gcd(0, 0) = 0); inside the loop the subtraction v - u never underflows
\* and the final shift u << twos_gcd never exceeds the word size.
C25_GcdTerminatesWithGcd ==
    /\ [](~g_underflow /\ ~g_overshift)
    /\ [](g_pc = "done" =>
            /\ g_ret = GCD(g_a, g_b)
            /\ g_b = 0 => g_ret = g_a
            /\ g_a = 0 => g_ret = g_b)
    /\ <>(g_pc = "done")

\* C25 witness: a call whose arguments share 2's and differ has returned a
\* divisor smaller than both, after turns of the loop that swapped.
C25_Witness ==
    /\ g_pc = "done"
    /\ g_twos >= 1
    /\ g_ret >= 2
    /\ g_ret < g_a
    /\ g_a < g_b
    /\ g_u * 2 < Shr(g_a, TrailingZeros(g_a))

\* --------------------------------------------------- binary search tree
\* The elements of the subtree at link n.
RECURSIVE BtElems(_)
BtElems(n) ==
    IF n = 0 THEN {}
    ELSE {bt_elem[n]} \cup BtElems(bt_left[n]) \cup BtElems(bt_right[n])

\* Every element to the left of a node is smaller than the node's, every
\* element to its right is greater.
BtOrdered ==
    \A n \in BtNodes :
        /\ \A e \in BtElems(bt_left[n]) : e < bt_elem[n]
        /\ \A e \in BtElems(bt_right[n]) : e > bt_elem[n]

\* The elements of the set S in ascending order.
RECURSIVE Ascending(_)
Ascending(S) ==
    IF S = {} THEN <<>>
    ELSE LET least == CHOOSE x \in S : \A y \in S : x <= y
         IN  <<least>> \o Ascending(S \ {least})

\* C26: Tree::insert keeps the binary-search-tree order and ignores a
\* value equal to one already present (one node for every distinct value),
\* so after any sequence of inserts iter_mut visits every distinct
\* inserted value exactly once, in ascending order.
C26_InsertOrderedIterAscending ==
    /\ BtOrdered
    /\ BtElems(bt_root) = bt_inserted
    /\ Len(bt_elem) = Cardinality(bt_inserted)
    /\ bt_pc = "iter" =>
          bt_visited = SubSeq(Ascending(bt_inserted), 1, Len(bt_visited))
    /\ bt_pc = "done" => bt_visited = Ascending(bt_inserted)

\* C26 witness: the iteration is over, of a tree of three values that got
\* a value a second time and whose root has a left subtree with a right
\* child.
C26_Witness ==
    /\ bt_pc = "done"
    /\ Cardinality(bt_inserted) = 3
    /\ bt_calls > 3
    /\ bt_left[bt_root] # 0
    /\ bt_right[bt_left[bt_root]] # 0

\* ---------------------------------------------------------------- C27
\* The get_mut call of thread t holds the sentinel: its compare-exchange
\* 1 -> MAX succeeded and its store of 1 has not happened yet.
HoldsSentinel(t) == pc[t] \in {"get_mut_load", "get_mut_store"}

SentinelHeld == \E t \in Threads : HoldsSentinel(t)

C27_Window ==
    SentinelHeld =>
        /\ weak_count = MAX
        /\ NumWeak = 0
        /\ alloc = "allocated"

C27_Step ==
    /\ \A t \in Threads :
          Downgraded(t) =>
              /\ ~SentinelHeld
              /\ weak_count # MAX
              /\ weak_count' # MAX
    /\ (SentinelHeld /\ weak_count' # weak_count) =>
          \E t \in Threads :
              /\ pc[t] = "get_mut_store"
              /\ pc'[t] # "get_mut_store"
              /\ weak_count' = 1
    /\ SentinelHeld => weaks' = weaks

\* C27: while a get_mut call holds the sentinel (from its successful
\* compare-exchange 1 -> MAX until its store of 1) no Arc::downgrade
\* completes: no weak handle exists or is created, weak_count stays MAX
\* until the holder stores 1, and a downgrade returns only from a state in
\* which no get_mut holds the sentinel.
C27_NoDowngradeUnderSentinel == [](C27_Window) /\ [][C27_Step]_vars

\* C27 witness: a downgrade spins on the sentinel that it read while the
\* get_mut of another thread holds it.
C27_Witness ==
    \E t \in Threads, u \in Threads :
        /\ t # u
        /\ pc[t] = "get_mut_store"
        /\ pc[u] = "downgrade"
        /\ seen[u] = MAX
        /\ ~aborted

\* ---------------------------------------------------------------- C28
\* weak_count holds the sentinel only while a get_mut call holds it.
C28_MaxOnlyInsideGetMut == (weak_count = MAX) => SentinelHeld

\* The step on which a get_mut call that acquired the sentinel returns
\* (Some: the view starts, None: back to idle) leaves weak_count at 1.
C28_ReturnStep ==
    \A t \in Threads :
        (HoldsSentinel(t) /\ pc'[t] \in {"idle", "mut_view"}) =>
            /\ weak_count = MAX
            /\ weak_count' = 1
            /\ ret'[t] \in {RetSome, RetNone}
            /\ (ret'[t] = RetSome) <=> (pc'[t] = "mut_view")

C29_NotOneMeansSharedOrLocked ==
    \A t \in Threads :
        (pc[t] = "idle" /\ arcs[t] > 0 /\ ~aborted /\ weak_count # 1) =>
            /\ alloc = "allocated"
            /\ NumWeak > 0 \/ SentinelHeld

\* The compare-exchange of get_mut on a weak_count other than 1.
C29_Step ==
    \A t \in Threads :
        (weak_count # 1 /\ pc[t] = "idle" /\ arcs[t] > 0 /\ GetMutCas(t)) =>
            /\ pc'[t] = "idle"
            /\ ret'[t] = RetNone
            /\ UNCHANGED <<alloc, data, strong_count, weak_count, DROP_COUNT,
                           free_count, arcs, weaks, seen, is_single, uaf,
                           aborted>>
            /\ \A u \in Threads \ {t} : pc'[u] = pc[u] /\ ret'[u] = ret[u]

\* C29: a get_mut whose compare-exchange finds weak_count other than 1
\* (weak handles exist, or another get_mut holds the sentinel) returns None
\* on that step and has written nothing: strong_count, weak_count, the
\* payload and the handles are as before the call.
C29_FailedGetMutWritesNothing ==
    [](C29_NotOneMeansSharedOrLocked) /\ [][C29_Step]_vars

\* C29 witness: the sole strong handle's get_mut has returned None while a
\* weak handle exists, and both counters stand as the handles say.
C29_Witness ==
    \E t \in Threads :
        /\ pc[t] = "idle"
        /\ ret[t] = RetNone
        /\ arcs[t] = 1
        /\ weaks[t] = 0
        /\ NumStrong = 1
        /\ NumWeak = 1
        /\ strong_count = 1
        /\ weak_count = 2
        /\ data = 7
        /\ ~aborted

\* ---------------------------------------------------------------- C30
\* The fetch_sub of Arc::drop: a non-last handle's drop ends on it, the
\* drop that reads 1 goes on to destroy the payload.
C30_FetchSub(t) ==
    (pc[t] = "idle" /\ arcs[t] > 0 /\ ArcDrop(t)) =>
        /\ strong_count >= 1
        /\ strong_count' = strong_count - 1
        /\ arcs'[t] = arcs[t] - 1
        /\ pc'[t] = (IF strong_count = 1 THEN "drop_data" ELSE "idle")
        /\ UNCHANGED <<alloc, data, weak_count, DROP_COUNT, free_count,
                       weaks>>

\* The rest of the last drop: the destructor of the payload, then the
\* release of the one weak unit that stood for the strong handles.
C30_LastDrop(t) ==
    /\ (pc'[t] = "drop_data" /\ pc[t] # "drop_data") =>
          (pc[t] = "idle" /\ strong_count = 1 /\ strong_count' = 0)
    /\ (pc[t] = "drop_data" /\ pc'[t] # "drop_data") =>
          /\ pc'[t] = "drop_weak"
          /\ DROP_COUNT = 0
          /\ DROP_COUNT' = 1
          /\ UNCHANGED <<alloc, strong_count, weak_count, free_count, arcs,
                         weaks>>
    /\ (pc'[t] = "drop_weak" /\ pc[t] # "drop_weak") => pc[t] = "drop_data"
    /\ (pc[t] = "drop_weak" /\ pc'[t] # "drop_weak") =>
          /\ DROP_COUNT = 1
          /\ weak_count >= 1
          /\ weak_count' = weak_count - 1
          /\ pc'[t] = (IF weak_count = 1 THEN "free" ELSE "idle")
          /\ UNCHANGED <<alloc, data, strong_count, DROP_COUNT, free_count,
                         arcs, weaks>>
    /\ (pc[t] = "free" /\ pc'[t] # "free") =>
          (pc'[t] = "idle" /\ weak_count' = weak_count)

C30_Step == \A t \in Threads : C30_FetchSub(t) /\ C30_LastDrop(t)

\* C30: Arc::drop of a non-last strong handle decrements strong_count by 1
\* and leaves weak_count and the payload untouched; the drop that takes
\* strong_count from 1 to 0 first runs the destructor of the payload and
\* then decrements weak_count by exactly 1, once.
C30_ArcDropFrame == [][C30_Step]_vars

\* C30 witness: the last strong handle's drop has returned while one weak
\* handle remains: the payload is destroyed, the unit of the strong handles
\* is released and the weak handle's unit is still counted.
C30_Witness ==
    /\ NumStrong = 0
    /\ strong_count = 0
    /\ NumWeak = 1
    /\ weak_count = 1
    /\ DROP_COUNT = 1
    /\ alloc = "allocated"
    /\ \A t \in Threads : pc[t] = "idle"
    /\ ~aborted

\* ---------------------------------------------------------------- C31
\* strong_count has reached 0: the record exists and the counter is 0.
StrongZero == alloc # "none" /\ strong_count = 0

C31_ZeroMeansNoHandle == StrongZero => NumStrong = 0

C31_Step ==
    StrongZero =>
        /\ strong_count' = 0
        /\ alloc' # "none"
        /\ arcs' = arcs
        /\ \A t \in Threads :
              (pc[t] = "upgrade" /\ pc'[t] = "idle") => ret'[t] = RetNone
        /\ \A t \in Threads : ret'[t] # ret[t] => ret'[t] \in {NoRet, RetNone}

\* C31: once strong_count has reached 0 it is 0 in every later state: no
\* step increments it from 0, no strong handle exists or is created, and
\* every upgrade that returns from then on returns None.
C31_StrongZeroIsFinal == [](C31_ZeroMeansNoHandle) /\ [][C31_Step]_vars

\* C31 witness: an upgrade that read strong_count = 1 is in front of its
\* compare-exchange after the last strong handle's drop took the counter
\* to 0 and destroyed the payload.
C31_Witness ==
    \E t \in Threads :
        /\ pc[t] = "upgrade"
        /\ seen[t] = 1
        /\ StrongZero
        /\ DROP_COUNT = 1
        /\ weaks[t] > 0
        /\ ~aborted

\* ---------------------------------------------------------------- C32
\* No access to a released record or to a destroyed payload has happened,
\* and from the step that takes weak_count to 0 onwards nobody is left who
\* could make one: no handle exists and every thread but the releasing one
\* is outside every operation.
C32_NobodyLeft ==
    /\ ~uaf
    /\ (alloc # "none" /\ weak_count = 0) =>
          /\ NumStrong = 0
          /\ NumWeak = 0
          /\ DROP_COUNT = 1
          /\ strong_count = 0
          /\ \A t \in Threads : pc[t] \in {"idle", "free"}
          /\ (alloc = "allocated") <=> (ThreadsAt("free") # {})

C32_Step ==
    /\ (weak_count = 1 /\ weak_count' = 0) =>
          \E t \in Threads :
              /\ pc[t] \in {"idle", "drop_weak"}
              /\ pc'[t] = "free"
              /\ alloc' = "allocated"
              /\ \A u \in Threads \ {t} : pc[u] = "idle"
    /\ (alloc = "released") => UNCHANGED <<alloc, data, strong_count,
                                           weak_count, DROP_COUNT, free_count>>

\* C32: no operation reads or writes the counters or the payload of a
\* record after it has been released: the step that takes weak_count from
\* 1 to 0 is taken by the drop that then releases the record, with no
\* strong or weak handle left and no other operation in flight, and
\* nothing of a released record changes afterwards.
C32_NoUseAfterRelease == [](C32_NobodyLeft) /\ [][C32_Step]_vars

\* C32 witness: the drop of the last weak handle, after the strong handles
\* were gone, has taken weak_count to 0 and is about to release the record.
C32_Witness ==
    \E t \in Threads :
        /\ pc[t] = "free"
        /\ weak_count = 0
        /\ StrongZero
        /\ alloc = "allocated"
        /\ ret[t] = NoRet
        /\ \E u \in Threads \ {t} : ret[u] = RetNone
        /\ ~aborted

\* ---------------------------------------------------------------- C33
\* A counter exceeds MAX / 2 + 1 only by the increments of clone calls that
\* are about to abort the process, one per thread, so with fewer than
\* MAX / 2 threads it stays below MAX.
C33_BelowMax ==
    /\ strong_count <= HalfMax + 1 + Cardinality(ThreadsAt("clone_abort"))
    /\ strong_count < MAX
    /\ weak_count # MAX =>
          /\ weak_count <= HalfMax + 1
                             + Cardinality(ThreadsAt("weak_clone_abort"))
          /\ weak_count < MAX

C33_Step ==
    /\ strong_count' \in {strong_count - 1, strong_count, strong_count + 1}
    /\ (weak_count # MAX /\ weak_count' # MAX) =>
          weak_count' \in {weak_count - 1, weak_count, weak_count + 1}
    /\ (weak_count # MAX /\ weak_count' = MAX) =>
          \E t \in Threads :
              /\ pc[t] = "idle"
              /\ pc'[t] = "get_mut_load"
              /\ weak_count = 1
    /\ \A t \in Threads :
          (pc[t] \in {"downgrade", "upgrade"} /\ pc'[t] = "idle"
              /\ ret'[t] # RetNone) => seen[t] <= HalfMax

\* C33: with fewer than MAX / 2 threads no step makes strong_count or
\* weak_count wrap around (each changes by at most 1 as an integer, the
\* sentinel aside), no increment produces weak_count = MAX, and the only
\* step that writes the sentinel is the compare-exchange of get_mut from 1:
\* a call that finds a counter above MAX / 2 aborts the process.
C33_NoWrapNoForgedSentinel ==
    /\ []((NThreads < HalfMax) => C33_BelowMax)
    /\ [][(NThreads < HalfMax) => C33_Step]_vars

\* C33 witness: every thread has incremented weak_count in Weak::clone
\* above MAX / 2 and is about to abort; weak_count is MAX - 1.
C33_Witness ==
    /\ NThreads < HalfMax
    /\ ThreadsAt("weak_clone_abort") = Threads
    /\ weak_count = HalfMax + 1 + NThreads
    /\ ~aborted

\* ---------------------------------------------------------------- C34
\* C34 as stated: in arc_only the count never wraps around to 0 while
\* handles exist (Arc::clone would abort the process first).
C34_CountNeverWrapsToZero ==
    (only_alloc = "allocated" /\ NumOnly > 0) => count # 0

\* ---------------------------------------------------------------- C35
SentinelHolders == {t \in Threads : HoldsSentinel(t)}

\* At most one get_mut holds the sentinel, and no operation that modifies
\* weak_count is under way meanwhile: no Weak::clone, no Weak::drop and no
\* last Arc::drop.
C35_OneHolder ==
    /\ Cardinality(SentinelHolders) <= 1
    /\ SentinelHolders # {} =>
          /\ ThreadsAt("weak_clone_abort") = {}
          /\ ThreadsAt("drop_data") = {}
          /\ ThreadsAt("drop_weak") = {}
          /\ ThreadsAt("free") = {}
          /\ NumStrong >= 1

C35_Step ==
    /\ (weak_count = MAX) => weak_count' \in {MAX, 1}
    /\ (weak_count = MAX /\ weak_count' = 1) =>
          \E t \in SentinelHolders :
              /\ pc[t] = "get_mut_store"
              /\ pc'[t] \in {"idle", "mut_view"}
              /\ \A u \in Threads \ {t} : pc'[u] = pc[u]
    /\ \A t \in Threads :
          (pc[t] = "get_mut_load" /\ pc'[t] = "get_mut_store") =>
              (weak_count = MAX /\ weak_count' = MAX)

\* C35: at most one get_mut call holds the sentinel at a time; while it is
\* held no other operation modifies weak_count (none that could is under
\* way), so the store of 1 finds the MAX its own call wrote; and from MAX
\* weak_count only ever goes to 1: it is never incremented or decremented.
C35_SentinelExclusive == [](C35_OneHolder) /\ [][C35_Step]_vars

\* C35 witness: one get_mut holds the sentinel and the get_mut of another
\* strong handle has returned None.
C35_Witness ==
    \E t \in Threads, u \in Threads :
        /\ t # u
        /\ pc[t] = "get_mut_load"
        /\ weak_count = MAX
        /\ pc[u] = "idle"
        /\ arcs[u] > 0
        /\ ret[u] = RetNone
        /\ ~aborted

\* ---------------------------------------------------------------- C36
\* The threads inside lock() of mutex_spin, and those of them that are
\* awake on the path that stores 2: they take the lock with state 2, or
\* leave 2 behind, so the drop of the guard that follows calls futex wake.
SpinWaiting ==
    {t \in Threads : mpc[t] \in {"spin_cas", "spin_spin", "spin_cas2",
                                 "spin_swap", "spin_wait", "spin_asleep"}}

SpinWillStoreTwo == {t \in Threads : mpc[t] \in {"spin_swap", "spin_wait"}}

\* No wake-up is lost: while the mutex is unlocked and a thread is asleep,
\* a wake is pending or a thread is on its way to take the lock with
\* state 2.
C36_NoSleeperForgotten ==
    (variant = "spin" /\ state = 0
        /\ \E t \in Threads : mpc[t] = "spin_asleep") =>
            \E u \in Threads :
                \/ mpc[u] = "spin_drop_wake"
                \/ u \in SpinWillStoreTwo

\* The swap of the drop decides the wake, and the state is 2 when a thread
\* falls asleep.
C36_Step ==
    \A t \in Threads :
        /\ (mpc[t] = "spin_drop" /\ mpc'[t] # "spin_drop") =>
              /\ state' = 0
              /\ (mpc'[t] = "spin_drop_wake") <=> (state = 2)
        /\ (mpc'[t] = "spin_drop_wake" /\ mpc[t] # "spin_drop_wake") =>
              mpc[t] = "spin_drop"
        /\ (mpc[t] = "spin_drop_wake" /\ mpc'[t] # "spin_drop_wake") =>
              \/ \A u \in Threads : mpc[u] # "spin_asleep"
              \/ \E u \in Threads :
                    mpc[u] = "spin_asleep" /\ mpc'[u] = "spin_swap"
        /\ (mpc'[t] = "spin_asleep" /\ mpc[t] # "spin_asleep") =>
              (mpc[t] = "spin_wait" /\ state = 2)

\* The number of times lock() has returned a guard.
SpinAcquired ==
    SumTo([t \in Threads |->
              (Increments - todo[t])
                  + (IF mpc[t] \in {"read", "write"} THEN 1 ELSE 0)],
          NThreads)

OsWritten == os_pc.tx \notin {"spin", "send_write"}

\* receive has moved the value out; Channel::drop has dropped it (it ran in
\* state DATA_READY, and the state is never written again).
OsMovedOut == os_ret # NoRet
OsDroppedInPlace == os_chan = "dropped" /\ os_state = DATA_READY

C37_State ==
    /\ ~os_ub
    /\ os_chan # "panicked"
    /\ ~(OsMovedOut /\ OsDroppedInPlace)
    /\ OsMovedOut => (os_ret = RetVal(os_sent) /\ os_data = <<>>)
    /\ (os_chan = "alive" /\ os_state = DATA_READY) => os_data = <<os_sent>>
    /\ (OsWritten /\ ~OsMovedOut /\ os_chan = "alive") =>
          os_data = <<os_sent>>
    /\ (os_chan = "dropped") <=> (os_handles = 0)
    /\ (os_handles = 0 /\ OsWritten) =>
          /\ os_data = <<>>
          /\ OsMovedOut \/ OsDroppedInPlace
          /\ OsDroppedInPlace <=> os_test = "drop_data"

\* The value leaves the channel on one step only: the read of receive, or
\* the drop of the last handle in state DATA_READY.
C37_Step ==
    (os_data # <<>> /\ os_data' = <<>>) =>
        \/ /\ os_pc.rx \in {"recv_take", "recv_loop"}
           /\ os_pc'.rx = "recv_end"
           /\ os_ret = NoRet
           /\ os_ret' = RetVal(os_sent)
           /\ os_state' = EMPTY
           /\ os_chan' = "alive"
        \/ /\ os_handles = 1
           /\ os_handles' = 0
           /\ os_state = DATA_READY
           /\ os_chan' = "dropped"
           /\ os_ret' = NoRet

\* C37: a value passed to send is consumed exactly once: receive moves it
\* out and leaves the state EMPTY, so that Channel::drop does not drop it,
\* or, receive never being called, Channel::drop drops it in state
\* DATA_READY; it is never both read and dropped, and once both endpoints
\* are gone it has been read or dropped.
C37_ConsumedOnce == [](C37_State) /\ [][C37_Step]_oneshotVars

\* C37 witness: send has written the value and returned, the Receiver was
\* dropped without receive, and Channel::drop dropped the value.
C37_Witness ==
    /\ os_test = "drop_data"
    /\ os_handles = 0
    /\ OsDroppedInPlace
    /\ os_data = <<>>
    /\ os_ret = NoRet
    /\ os_pc.tx = "done"
    /\ os_pc.rx = "done"
====
